---- MODULE Spec2Model ----
(***************************************************************************)
(* Model of the graph rewriting passes of torch:                           *)
(*   - torch/onnx/_internal/fx/passes/type_promotion.py                    *)
(*       TypePromotionRule, TypePromotionTable, ExplicitTypePromotionPass  *)
(*   - torch/_inductor/fx_passes/replace_random.py                         *)
(*       replace_random_passes, lazy_init, fuse_seed_creation_pass         *)
(* Four state machines share the module: the rule table (SpecTable), the   *)
(* seed fusion pass (SpecSeed), the explicit type promotion pass           *)
(* (SpecPromo) and the random op replacement (SpecRandom).                 *)
(***************************************************************************)
EXTENDS Integers, Sequences, FiniteSets, TLC

VARIABLES
    \* ---- rule table (TypePromotionTable) ----
    registry,     \* (namespace, op_name) pairs that resolve to an OpOverloadPacket
    rule_table,   \* TypePromotionTable._rule_table: key -> rule
    tbl_pc,       \* "ctor_gen" | "ctor_extra" | "ready" | "ctor_raised"
    todo_gen,     \* rules of _GENERATED_ATEN_TYPE_PROMOTION_RULE_SET not yet added
    todo_extra,   \* rules of _EXTRA_TYPE_PROMOTION_RULE_SET not yet added
    last_add,     \* the last add_rule call: its rule, whether it raised, the table before
    n_add,        \* number of add_rule calls made after construction
    \* ---- the fx graph a pass rewrites ----
    order,        \* graph.nodes: the ids of the nodes in the graph, in list order
    nodes,        \* id -> node (op, target, args, kwargs, meta)
    next_id,      \* the id the next created node gets
    orig_order,   \* graph.nodes when the pass was called
    orig_nodes,   \* the nodes when the pass was called
    \* ---- fuse_seed_creation_pass ----
    fs_pc,        \* "idle" | "scan" | "combine" | "lookup" | "replace" | "erase" | "done" | "raised"
    device_seeds, \* the defaultdict, in insertion order: <<[device, seeds]>>
    fs_grp,       \* position of the outer loop in device_seeds
    fs_idx,       \* idx of the inner loop (0-based)
    fs_combined,  \* id of the node `combined` of the current device
    fs_new_seed,  \* id of the node `new_seed` of the current seed
    \* ---- ExplicitTypePromotionPass ----
    pp_pc,        \* "idle" | "start" | "next" | "run_node" | "preview" | "promote" |
                  \* "rerun" | "compare" | "super" | "done" | "raised"
    pp_err,       \* the exception that ended the pass, "" if none
    env,          \* Interpreter.env: node id -> value
    cur,          \* the node the loop of Interpreter.run is at (0 before the first)
    pp_rule,      \* the rule found for cur
    pp_info,      \* type_promotion_info of cur
    pp_fetched,   \* args, kwargs of cur as _insert_explicit_type_promotion fetched them
    pp_node_val,  \* node_val: meta["val"] of cur read before it is run again
    run_no,       \* how many times the pass has been started on the module
    last_uses,    \* Interpreter.user_to_last_uses: node id -> set of node ids
    args_iter,    \* Interpreter.args_iter: the fake args not yet consumed
    trail,        \* node id -> the stages run_node has taken the node through
    \* ---- replace_random_passes ----
    rr_config,    \* config: fallback_random, lowmem_dropout, triton.vectorize_random
    cuda,         \* torch.cuda.is_available()
    patterns,     \* the PatternMatcherPass `patterns`: its entries, first tried first
    init_gate,    \* the gate of init_once_fakemode: "uninit" | "running" | "done"
    init_runs,    \* how many times the body of lazy_init has been entered
    rr_pc,        \* thread -> "idle" | "lazy_init" | "init_body" | "reg_inference" |
                  \* "reg_training" | "apply_begin" | "apply" | "fuse" | "returned"
    rr_calls,     \* thread -> number of calls of replace_random_passes it has made
    rr_count,     \* thread -> count of its current call
    rr_ret,       \* thread -> the value its last call returned (-1 before)
    rr_owner,     \* the thread whose graph module order/nodes hold (0: none)
    rr_scan,      \* the nodes patterns.apply has still to visit
    n_fuse,       \* how many times the current call has called fuse_seed_creation_pass
    rr_counter,   \* counters["inductor"]["replace_random"]
    rr_log        \* the dropout replacements of the current call, as they were traced

gvars == <<order, nodes, next_id, orig_order, orig_nodes>>

fvars == <<fs_pc, device_seeds, fs_grp, fs_idx, fs_combined, fs_new_seed>>

pvars == <<pp_pc, pp_err, env, cur, pp_rule, pp_info, pp_fetched, pp_node_val, run_no, last_uses,
           args_iter, trail>>

tvars == <<registry, rule_table, tbl_pc, todo_gen, todo_extra, last_add, n_add>>

rvars == <<rr_config, cuda, patterns, init_gate, init_runs, rr_pc, rr_calls, rr_count, rr_ret,
           rr_owner, rr_scan, n_fuse, rr_counter, rr_log>>

-----------------------------------------------------------------------------
(* Bounds of the model.                                                    *)

\* add_rule calls made on a constructed table
MaxAddCalls == 2

\* nodes (besides the output node) of a graph given to fuse_seed_creation_pass
MaxSeedGraphLen == 6

\* times the type promotion pass is applied to one module
MaxRuns == 2

-----------------------------------------------------------------------------
(* TypePromotionRule and the operator registry.                            *)
(* A namespace and an operator name are sequences of identifier segments   *)
(* ("aten" is <<"aten">>, "add.Tensor" is <<"add", "Tensor">>), so that    *)
(* the key f"{namespace}.{op_name}" is their concatenation.                *)

Rule(ns, name, pos, kw, kind) ==
    [namespace |-> ns, op_name |-> name, promote_args_positions |-> pos,
     promote_kwargs_names |-> kw, promotion_kind |-> kind]

\* A sample of _GENERATED_ATEN_TYPE_PROMOTION_RULE_SET, one rule or more per
\* promotion kind.
GeneratedRuleSet ==
    { Rule(<<"aten">>, <<"abs">>, <<0>>, {}, "COMPLEX_TO_FLOAT"),
      Rule(<<"aten">>, <<"add">>, <<0, 1>>, {}, "DEFAULT"),
      Rule(<<"aten">>, <<"cat">>, <<0>>, {}, "NO_OPMATH"),
      Rule(<<"aten">>, <<"clamp">>, <<0, 1, 2>>, {}, "DEFAULT"),
      Rule(<<"aten">>, <<"eq">>, <<0, 1>>, {}, "ALWAYS_BOOL"),
      Rule(<<"aten">>, <<"l1_loss">>, <<0, 1>>, {}, "COMPLEX_TO_FLOAT"),
      Rule(<<"aten">>, <<"pow">>, <<0, 1>>, {}, "BOOL_TO_LONG"),
      Rule(<<"aten">>, <<"sin">>, <<0>>, {}, "INT_TO_FLOAT"),
      Rule(<<"aten">>, <<"where">>, <<1, 2>>, {}, "NO_OPMATH") }

\* _EXTRA_TYPE_PROMOTION_RULE_SET
ExtraRuleSet ==
    { Rule(<<"aten">>, <<"clamp_min">>, <<0, 1>>, {}, "DEFAULT"),
      Rule(<<"aten">>, <<"clamp_max">>, <<0, 1>>, {}, "DEFAULT") }

\* Rules a caller hands to add_rule on a constructed table: overrides of
\* stored keys, new keys, and rules whose operator does not resolve.
CallerRules ==
    { Rule(<<"aten">>, <<"add">>, <<0, 1>>, {}, "INT_TO_FLOAT"),
      Rule(<<"aten">>, <<"var_mean">>, <<0>>, {}, "DEFAULT"),
      Rule(<<"aten">>, <<"_local_scalar_dense">>, <<0>>, {}, "DEFAULT"),
      Rule(<<"aten">>, <<"contiguous">>, <<0>>, {}, "DEFAULT"),
      Rule(<<"aten">>, <<"no_such_op">>, <<0>>, {}, "DEFAULT"),
      Rule(<<"aten">>, <<"add", "Tensor">>, <<0, 1>>, {}, "DEFAULT"),
      Rule(<<"aten">>, <<"name">>, <<0>>, {}, "DEFAULT") }

\* Every operator name torch.ops resolves to an OpOverloadPacket in a full
\* build.
AllPackets ==
    { <<r.namespace, r.op_name>> : r \in GeneratedRuleSet \cup ExtraRuleSet }
    \cup { <<<<"aten">>, <<"var_mean">>>>, <<<<"aten">>, <<"_local_scalar_dense">>>>,
           <<<<"aten">>, <<"contiguous">>>>,
           <<<<"aten">>, <<"view">>>>, <<<<"aten">>, <<"tensor">>>>,
           <<<<"prims">>, <<"convert_element_type">>>> }

\* Attributes of a torch.ops namespace that are not operators
\* (torch.ops.aten.name is a str).
NonPacketAttrs == { <<<<"aten">>, <<"name">>>> }

\* getattr(getattr(torch.ops, namespace), op_name, None), by the type of
\* what it returns.
GetAttrType(reg, ns, name) ==
    IF <<ns, name>> \in reg THEN "OpOverloadPacket"
    ELSE IF <<ns, name>> \in NonPacketAttrs THEN "str"
    ELSE "None"

is_valid(reg, rule) ==
    LET py_op == GetAttrType(reg, rule.namespace, rule.op_name)
    IN  IF py_op = "None" THEN FALSE
        ELSE IF py_op # "OpOverloadPacket" THEN FALSE
        ELSE TRUE

\* f"{rule.namespace}.{rule.op_name}"
RuleKey(rule) == rule.namespace \o rule.op_name

\* A store that keeps the rule already under the key (first write wins).
TableStoreKeepFirst(table, key, rule) ==
    [k \in DOMAIN table \cup {key} |->
        IF k \in DOMAIN table THEN table[k] ELSE rule]

\* self._rule_table[key] = rule
TableStore(table, key, rule) ==
    [k \in DOMAIN table \cup {key} |-> IF k = key THEN rule ELSE table[k]]

\* An add_rule that stores the rule without validating it.
add_rule_unchecked(reg, table, rule) ==
    [raised |-> FALSE, table |-> TableStore(table, RuleKey(rule), rule)]

\* TypePromotionTable.add_rule: the table afterwards and whether ValueError
\* was raised.
add_rule(reg, table, rule) ==
    IF ~is_valid(reg, rule)
        THEN [raised |-> TRUE, table |-> table]
        ELSE [raised |-> FALSE, table |-> TableStore(table, RuleKey(rule), rule)]

\* TypePromotionTable.get_rule: self._rule_table.get(str(py_op), None);
\* str of the packet of namespace ns and name n is "ns.n".
NoRule == [none |-> TRUE]

get_rule(table, packet) ==
    LET key == packet[1] \o packet[2]
    IN  IF key \in DOMAIN table THEN table[key] ELSE NoRule

EmptyTable == [k \in {} |-> NoRule]

NoSnapshot == [none |-> TRUE]

NotFetched == [args |-> <<>>, kwargs |-> <<>>]

-----------------------------------------------------------------------------
(* The fx graph: a list of nodes.  A node has an op, a target, args,       *)
(* kwargs and a meta dict; an argument is a reference to a node, a         *)
(* literal, None, or a tuple/list of arguments.  The users of a node are   *)
(* the nodes whose args or kwargs refer to it (fx keeps node.users in      *)
(* step with the args).                                                    *)

NodeArg(id) == [k |-> "node", id |-> id]
IntArg(v) == [k |-> "int", v |-> v]
DeviceArg(d) == [k |-> "device", dev |-> d]
SeqArg(ctr, elems) == [k |-> "seq", ctr |-> ctr, elems |-> elems]
NoneVal == [k |-> "none"]

OpTarget(ns, name, overload) == [packet |-> <<ns, name>>, overload |-> overload]

Node(op, target, args, kwargs, meta) ==
    [op |-> op, target |-> target, args |-> args, kwargs |-> kwargs, meta |-> meta]

RECURSIVE ArgNodes(_)
\* The node ids an argument refers to.
ArgNodes(arg) ==
    IF arg.k = "node" THEN {arg.id}
    ELSE IF arg.k = "seq"
        THEN UNION { ArgNodes(arg.elems[i]) : i \in DOMAIN arg.elems }
    ELSE {}

\* node.all_input_nodes
InputNodes(n) ==
    UNION { ArgNodes(n.args[i]) : i \in DOMAIN n.args }
    \cup UNION { ArgNodes(n.kwargs[name]) : name \in DOMAIN n.kwargs }

\* node.users
Users(ns, id) == { u \in DOMAIN ns : id \in InputNodes(ns[u]) }

RECURSIVE MapArg(_, _, _)
\* map_arg(arg, lambda n: new if n == old else n)
MapArg(arg, old, new) ==
    IF arg.k = "node" THEN (IF arg.id = old THEN NodeArg(new) ELSE arg)
    ELSE IF arg.k = "seq"
        THEN SeqArg(arg.ctr, [i \in DOMAIN arg.elems |-> MapArg(arg.elems[i], old, new)])
    ELSE arg

\* A replace_all_uses_with that rewires only the first user in the list.
replace_all_uses_with_first(ord, ns, old, new) ==
    LET users == Users(ns, old)
        first == CHOOSE u \in users :
                    \A v \in users :
                        (CHOOSE i \in DOMAIN ord : ord[i] = u)
                            <= (CHOOSE i \in DOMAIN ord : ord[i] = v)
    IN  [n \in DOMAIN ns |->
            IF users # {} /\ n = first
                THEN [ns[n] EXCEPT
                        !.args = [i \in DOMAIN @ |-> MapArg(@[i], old, new)],
                        !.kwargs = [name \in DOMAIN @ |-> MapArg(@[name], old, new)]]
                ELSE ns[n]]

\* Node.replace_all_uses_with: every user of old refers to new instead.
replace_all_uses_with(ord, ns, old, new) ==
    [n \in DOMAIN ns |->
        IF n \in Users(ns, old)
            THEN [ns[n] EXCEPT
                    !.args = [i \in DOMAIN @ |-> MapArg(@[i], old, new)],
                    !.kwargs = [name \in DOMAIN @ |-> MapArg(@[name], old, new)]]
            ELSE ns[n]]

IndexOf(ord, id) == CHOOSE i \in DOMAIN ord : ord[i] = id

\* graph.inserting_before(ref): the created node is linked in before ref.
InsertBefore(ord, ref, id) ==
    LET i == IndexOf(ord, ref)
    IN  SubSeq(ord, 1, i - 1) \o <<id>> \o SubSeq(ord, i, Len(ord))

\* graph.inserting_after(ref): the created node is linked in after ref.
InsertAfter(ord, ref, id) ==
    LET i == IndexOf(ord, ref)
    IN  SubSeq(ord, 1, i) \o <<id>> \o SubSeq(ord, i + 1, Len(ord))

\* graph.erase_node: the node is unlinked from the list.
RemoveNode(ord, id) == SelectSeq(ord, LAMBDA n : n # id)

\* meta.update(other)
MetaUpdate(meta, other) ==
    [key \in DOMAIN meta \cup DOMAIN other |->
        IF key \in DOMAIN other THEN other[key] ELSE meta[key]]

\* The abstract value of a tensor: dtype, shape and device.
TensorVal(dtype, shape, device) ==
    [k |-> "tensor", dtype |-> dtype, shape |-> shape, device |-> device]

NoKwargs == <<>>
NoMeta == <<>>

GraphIdle ==
    /\ order = <<>>
    /\ nodes = <<>>
    /\ next_id = 1
    /\ orig_order = <<>>
    /\ orig_nodes = <<>>

FuseIdle ==
    /\ fs_pc = "idle"
    /\ device_seeds = <<>>
    /\ fs_grp = 0
    /\ fs_idx = 0
    /\ fs_combined = 0
    /\ fs_new_seed = 0

RandomIdle ==
    /\ rr_config = [fallback_random |-> FALSE, lowmem_dropout |-> FALSE,
                    vectorize_random |-> FALSE]
    /\ cuda = FALSE
    /\ patterns = <<>>
    /\ init_gate = "uninit"
    /\ init_runs = 0
    /\ rr_pc = <<>>
    /\ rr_calls = <<>>
    /\ rr_count = <<>>
    /\ rr_ret = <<>>
    /\ rr_owner = 0
    /\ rr_scan = <<>>
    /\ n_fuse = 0
    /\ rr_counter = 0
    /\ rr_log = <<>>

PromoIdle ==
    /\ pp_pc = "idle"
    /\ pp_err = ""
    /\ env = <<>>
    /\ cur = 0
    /\ pp_rule = NoRule
    /\ pp_info = NoSnapshot
    /\ pp_fetched = NotFetched
    /\ pp_node_val = NoneVal
    /\ run_no = 0
    /\ last_uses = <<>>
    /\ args_iter = <<>>
    /\ trail = <<>>

-----------------------------------------------------------------------------
(* Dtypes and the promotion policy (_prims_common.elementwise_dtypes).     *)

Dtypes ==
    {"bool", "int32", "int64", "float16", "float32", "float64",
     "complex32", "complex64", "complex128"}

\* The kind class of a dtype, ordered bool < int < float < complex.
DtypeKind(d) ==
    IF d = "bool" THEN "bool"
    ELSE IF d \in {"int32", "int64"} THEN "int"
    ELSE IF d \in {"float16", "float32", "float64"} THEN "float"
    ELSE "complex"

KindRank(kind) ==
    IF kind = "bool" THEN 0 ELSE IF kind = "int" THEN 1
    ELSE IF kind = "float" THEN 2 ELSE 3

\* The width of a dtype within its kind class.
DtypeWidth(d) ==
    IF d \in {"bool"} THEN 0
    ELSE IF d \in {"float16", "complex32"} THEN 1
    ELSE IF d \in {"int32", "float32", "complex64"} THEN 2
    ELSE 3

corresponding_complex_dtype(d) ==
    IF d = "float16" THEN "complex32"
    ELSE IF d = "float32" THEN "complex64"
    ELSE IF d = "float64" THEN "complex128"
    ELSE d

corresponding_real_dtype(d) ==
    IF d = "complex32" THEN "float16"
    ELSE IF d = "complex64" THEN "float32"
    ELSE IF d = "complex128" THEN "float64"
    ELSE d

\* The dtype an elementwise computation runs in (op math): the low
\* precision floating and complex dtypes compute in the next wider one.
get_computation_dtype(d) ==
    IF d = "float16" THEN "float32"
    ELSE IF d = "complex32" THEN "complex64"
    ELSE d

\* Abstract values: what the interpreter holds for a node or an argument.
FakeTensor(dtype) == TensorVal(dtype, <<2>>, "cpu")
ScalarVal(ty) == [k |-> "scalar", ty |-> ty]
SymVal(ty) == [k |-> "sym", ty |-> ty]
DtypeArg(d) == [k |-> "dtype", dtype |-> d]

IsTensor(v) == v.k = "tensor"

RECURSIVE tree_flatten(_)
\* _pytree.tree_flatten: the leaves of a value, tuples and lists opened.
tree_flatten(v) ==
    IF v.k = "seq"
        THEN IF v.elems = <<>> THEN <<>>
             ELSE tree_flatten(SeqArg(v.ctr, SubSeq(v.elems, 1, Len(v.elems) - 1)))
                    \o tree_flatten(v.elems[Len(v.elems)])
        ELSE <<v>>

\* The python type class of an operand: of a tensor its dtype's kind, of a
\* number or a symbolic number its type.
ValueKind(v) ==
    IF IsTensor(v) THEN DtypeKind(v.dtype) ELSE IF v.k = "int" THEN "int" ELSE v.ty

\* The widest dtype of the tensors among vals whose kind is in kinds,
\* floating dtypes taken as complex when as_complex; "" when there is none.
HighestDtype(vals, kinds, as_complex) ==
    LET cands == { IF as_complex THEN corresponding_complex_dtype(vals[i].dtype)
                                 ELSE vals[i].dtype :
                    i \in { j \in DOMAIN vals :
                              IsTensor(vals[j]) /\ DtypeKind(vals[j].dtype) \in kinds } }
    IN  IF cands = {} THEN ""
        ELSE CHOOSE d \in cands : \A e \in cands : DtypeWidth(e) <= DtypeWidth(d)

\* The highest kind rank among the operands.
HighestRank(vals) ==
    LET ranks == { KindRank(ValueKind(vals[i])) : i \in DOMAIN vals } \cup {0}
    IN  CHOOSE r \in ranks : \A q \in ranks : q <= r

\* The dtype of the highest kind: the widest tensor dtype found, or the
\* default dtype of the kind when no tensor has it.
DtypeOfRank(found, highest) ==
    IF found # "" THEN found
    ELSE IF highest = 2 THEN "float32"
    ELSE IF highest = 3 THEN "complex64"
    ELSE "int64"

WidestOfRank(vals, highest) ==
    DtypeOfRank(IF highest = 2 THEN HighestDtype(vals, {"float"}, FALSE)
                ELSE IF highest = 3 THEN HighestDtype(vals, {"float", "complex"}, TRUE)
                ELSE IF highest = 1 THEN HighestDtype(vals, {"int"}, FALSE)
                ELSE "bool",
                highest)

\* The common dtype of the operands: the join over their kinds and widths.
CommonDtype(vals) == WidestOfRank(vals, HighestRank(vals))

PromotionKinds ==
    {"DEFAULT", "NO_OPMATH", "INT_TO_FLOAT", "COMPLEX_TO_FLOAT", "BOOL_TO_LONG",
     "ALWAYS_BOOL"}

\* The pair (computation dtype, result dtype) of a promotion kind for the
\* common dtype of the operands.
DtypesOfKind(common, kind) ==
    IF kind = "DEFAULT"
        THEN <<get_computation_dtype(common), common>>
    ELSE IF kind = "NO_OPMATH"
        THEN <<common, common>>
    ELSE IF kind = "INT_TO_FLOAT"
        THEN IF DtypeKind(common) \in {"bool", "int"}
                THEN <<get_computation_dtype("float32"), "float32">>
                ELSE <<get_computation_dtype(common), common>>
    ELSE IF kind = "COMPLEX_TO_FLOAT"
        THEN <<get_computation_dtype(common),
               IF DtypeKind(common) = "complex"
                   THEN corresponding_real_dtype(common) ELSE common>>
    ELSE IF kind = "BOOL_TO_LONG"
        THEN IF common = "bool" THEN <<"int64", "int64">>
             ELSE <<get_computation_dtype(common), common>>
    ELSE <<get_computation_dtype(common), "bool">>

\* elementwise_dtypes(*args, type_promotion_kind=kind): the values that are
\* None are skipped; the pair (computation dtype, result dtype).
elementwise_dtypes(args, kind) ==
    DtypesOfKind(CommonDtype(SelectSeq(args, LAMBDA v : v.k # "none")), kind)

\* Whether elementwise_dtypes accepts the operand (a tensor, a number or a
\* symbolic number); it raises ValueError on anything else.
IsTorchArg(v) == v.k \in {"tensor", "scalar", "int", "sym", "none"}

-----------------------------------------------------------------------------
(* The collaborators of the type promotion pass: the operator dispatcher   *)
(* and the abstract interpreter (fake execution of one node).              *)

OpName(target) == target.packet[2][1]

ConvertTarget == OpTarget(<<"prims">>, <<"convert_element_type">>, "default")
GetItemTarget == OpTarget(<<"operator">>, <<"getitem">>, "")

\* isinstance(op, torch._ops.OpOverload)
IsOpOverload(target) == target.packet[1] \in {<<"aten">>, <<"prims">>}

\* The promotion an operator performs itself; the generated rule set is
\* distilled from it.
SemanticRule(packet) ==
    CHOOSE r \in GeneratedRuleSet \cup ExtraRuleSet :
        <<r.namespace, r.op_name>> = packet

ElementwisePackets ==
    { <<r.namespace, r.op_name>> : r \in GeneratedRuleSet \cup ExtraRuleSet }

\* The overload of the packet that accepts the operands.
OverloadFor(packet, vals) ==
    LET name == packet[2][1]
        n == Len(vals)
        tensor(i) == i <= n /\ IsTensor(vals[i])
    IN  IF name \in {"add", "eq"}
            THEN (IF tensor(2) THEN "Tensor" ELSE "Scalar")
        ELSE IF name \in {"clamp", "clamp_min", "clamp_max"}
            THEN (IF tensor(2) \/ tensor(3) THEN "Tensor" ELSE "default")
        ELSE IF name = "pow"
            THEN (IF tensor(1) /\ tensor(2) THEN "Tensor_Tensor"
                  ELSE IF tensor(1) THEN "Tensor_Scalar" ELSE "Scalar")
        ELSE IF name = "where"
            THEN (IF n = 1 THEN "default"
                  ELSE IF tensor(2) /\ tensor(3) THEN "self"
                  ELSE IF tensor(2) THEN "ScalarOther"
                  ELSE IF tensor(3) THEN "ScalarSelf" ELSE "Scalar")
        ELSE IF name = "tensor" THEN vals[1].ty
        ELSE "default"

\* What _OpTraceDispatchMode records when the packet is called on the
\* operands: the one overload that runs, the operators a composite
\* operator decomposes into, or nothing when the call returns its input
\* without dispatching.
TracedOps(packet, vals) ==
    LET name == packet[2][1]
    IN  IF name = "l1_loss"
            THEN << OpTarget(<<"aten">>, <<"sub">>, "Tensor"),
                    OpTarget(<<"aten">>, <<"abs">>, "default"),
                    OpTarget(<<"aten">>, <<"mean">>, "default") >>
        ELSE IF name = "contiguous" THEN <<>>
        ELSE << OpTarget(packet[1], packet[2], OverloadFor(packet, vals)) >>

\* A find_compatible_op_overload that keeps the target of the node.
find_compatible_op_overload_kept(n, args) == [raised |-> FALSE, op |-> n.target]

\* find_compatible_op_overload(node, args, kwargs): the one traced op, or
\* raised (AssertionError) when the target is no OpOverload, when the number
\* of traced ops is not 1, or when the traced op is no OpOverload.
find_compatible_op_overload(n, args) ==
    LET traced_ops == TracedOps(n.target.packet, args)
    IN  IF ~IsOpOverload(n.target) \/ Len(traced_ops) # 1
            THEN [raised |-> TRUE, op |-> n.target]
        ELSE IF ~IsOpOverload(traced_ops[1])
            THEN [raised |-> TRUE, op |-> n.target]
        ELSE [raised |-> FALSE, op |-> traced_ops[1]]

ErrorVal(err) == [k |-> "error", err |-> err]
IsError(v) == v.k = "error"

RECURSIVE FetchArg(_, _)
\* Interpreter.fetch_args_kwargs_from_env, for one argument: a node is
\* looked up in env (KeyError when it is not there).
FetchArg(e, arg) ==
    IF arg.k = "node"
        THEN (IF arg.id \in DOMAIN e THEN e[arg.id] ELSE ErrorVal("KeyError"))
    ELSE IF arg.k = "seq"
        THEN LET elems == [i \in DOMAIN arg.elems |-> FetchArg(e, arg.elems[i])]
             IN  IF \E i \in DOMAIN elems : IsError(elems[i])
                     THEN ErrorVal("KeyError") ELSE SeqArg(arg.ctr, elems)
    ELSE arg

FetchArgs(e, n) == [i \in DOMAIN n.args |-> FetchArg(e, n.args[i])]
FetchKwargs(e, n) == [name \in DOMAIN n.kwargs |-> FetchArg(e, n.kwargs[name])]

\* The operands at the positions the operator itself promotes over.
SemanticOperands(packet, vals) ==
    LET pos == SemanticRule(packet).promote_args_positions
        present == SelectSeq(pos, LAMBDA i : i < Len(vals))
    IN  [j \in DOMAIN present |-> vals[present[j] + 1]]

RECURSIVE FlattenAll(_)
FlattenAll(vals) ==
    IF vals = <<>> THEN <<>>
    ELSE FlattenAll(SubSeq(vals, 1, Len(vals) - 1)) \o tree_flatten(vals[Len(vals)])

\* Fake execution of target(*args, **kwargs): the abstract value of the
\* result.
Apply(target, vals, kwvals) ==
    LET name == OpName(target)
    IN  IF (\E i \in DOMAIN vals : IsError(vals[i]))
           \/ (\E key \in DOMAIN kwvals : IsError(kwvals[key]))
            THEN ErrorVal("KeyError")
        ELSE IF name = "getitem" THEN vals[1].elems[vals[2].v + 1]
        ELSE IF name \in {"convert_element_type", "tensor"}
            THEN FakeTensor(kwvals["dtype"].dtype)
        ELSE IF name \in {"view", "contiguous"} THEN FakeTensor(vals[1].dtype)
        ELSE IF name = "var_mean"
            THEN SeqArg("tuple", <<FakeTensor(vals[1].dtype), FakeTensor(vals[1].dtype)>>)
        ELSE IF name = "_local_scalar_dense"
            THEN SymVal(IF DtypeKind(vals[1].dtype) = "float" THEN "float" ELSE "int")
        ELSE IF name = "where" /\ Len(vals) = 1
            THEN SeqArg("tuple", <<FakeTensor("int64")>>)
        ELSE FakeTensor(
                elementwise_dtypes(FlattenAll(SemanticOperands(target.packet, vals)),
                                   SemanticRule(target.packet).promotion_kind)[2])

\* torch.fx.Interpreter.run_node for a call_function node.
InterpRunNode(e, n) == Apply(n.target, FetchArgs(e, n), FetchKwargs(e, n))

\* type(value), as far as isinstance(new_node_val, type(node_val)) tells.
PyType(v) ==
    IF v.k = "seq" THEN v.ctr
    ELSE IF v.k \in {"sym", "scalar"} THEN <<v.k, v.ty>>
    ELSE v.k

-----------------------------------------------------------------------------
(* The rule table as a state machine: TypePromotionTable.__init__ adds the *)
(* generated rules, then the extra rules, in the iteration order of the    *)
(* two sets; callers then add rules to the constructed table.              *)

NoCall == [rule |-> NoRule, raised |-> FALSE, before |-> EmptyTable]

\* Builds whose registry lacks an operator the rule sets name.
Registries ==
    { AllPackets,
      AllPackets \ { <<<<"aten">>, <<"l1_loss">>>> },
      AllPackets \ { <<<<"aten">>, <<"clamp_max">>>> } }

TableIdle ==
    /\ registry = AllPackets
    /\ rule_table = EmptyTable
    /\ tbl_pc = "idle"
    /\ todo_gen = {}
    /\ todo_extra = {}
    /\ last_add = NoCall
    /\ n_add = 0

InitTable ==
    /\ GraphIdle
    /\ FuseIdle
    /\ PromoIdle
    /\ RandomIdle
    /\ registry \in Registries
    /\ rule_table = EmptyTable
    /\ tbl_pc = "ctor_gen"
    /\ todo_gen = GeneratedRuleSet
    /\ todo_extra = ExtraRuleSet
    /\ last_add = NoCall
    /\ n_add = 0

\* One call of self.add_rule(rule), recorded in last_add.
CallAddRule(rule) ==
    LET res == add_rule(registry, rule_table, rule)
    IN  /\ rule_table' = res.table
        /\ last_add' = [rule |-> rule, raised |-> res.raised, before |-> rule_table]

\* for rule in _GENERATED_ATEN_TYPE_PROMOTION_RULE_SET: self.add_rule(rule)
CtorAddGenerated ==
    /\ tbl_pc = "ctor_gen"
    /\ todo_gen # {}
    /\ \E rule \in todo_gen :
        /\ CallAddRule(rule)
        /\ todo_gen' = todo_gen \ {rule}
        /\ tbl_pc' = IF last_add'.raised THEN "ctor_raised" ELSE "ctor_gen"
    /\ UNCHANGED <<registry, todo_extra, n_add, gvars, fvars, pvars, rvars>>

CtorGeneratedDone ==
    /\ tbl_pc = "ctor_gen"
    /\ todo_gen = {}
    /\ tbl_pc' = "ctor_extra"
    /\ UNCHANGED <<registry, rule_table, todo_gen, todo_extra, last_add, n_add,
                   gvars, fvars, pvars, rvars>>

\* for rule in _EXTRA_TYPE_PROMOTION_RULE_SET: self.add_rule(rule)
CtorAddExtra ==
    /\ tbl_pc = "ctor_extra"
    /\ todo_extra # {}
    /\ \E rule \in todo_extra :
        /\ CallAddRule(rule)
        /\ todo_extra' = todo_extra \ {rule}
        /\ tbl_pc' = IF last_add'.raised THEN "ctor_raised" ELSE "ctor_extra"
    /\ UNCHANGED <<registry, todo_gen, n_add, gvars, fvars, pvars, rvars>>

CtorDone ==
    /\ tbl_pc = "ctor_extra"
    /\ todo_extra = {}
    /\ tbl_pc' = "ready"
    /\ UNCHANGED <<registry, rule_table, todo_gen, todo_extra, last_add, n_add,
                   gvars, fvars, pvars, rvars>>

\* table.add_rule(rule) by a caller; a ValueError leaves the table usable.
AddRule ==
    /\ tbl_pc = "ready"
    /\ n_add < MaxAddCalls
    /\ \E rule \in CallerRules \cup ExtraRuleSet : CallAddRule(rule)
    /\ n_add' = n_add + 1
    /\ UNCHANGED <<registry, tbl_pc, todo_gen, todo_extra, gvars, fvars, pvars, rvars>>

NextTable ==
    \/ CtorAddGenerated
    \/ CtorGeneratedDone
    \/ CtorAddExtra
    \/ CtorDone
    \/ AddRule


-----------------------------------------------------------------------------
(* fuse_seed_creation_pass(graph).                                         *)

Devices == {"A", "B"}

SeedTarget == OpTarget(<<"prims">>, <<"inductor_seed">>, "default")
SeedsTarget == OpTarget(<<"prims">>, <<"inductor_seeds">>, "default")
LookupSeedTarget == OpTarget(<<"prims">>, <<"inductor_lookup_seed">>, "default")
RandomTarget == OpTarget(<<"prims">>, <<"inductor_random">>, "default")
OutputTarget == OpTarget(<<"fx">>, <<"output">>, "")

\* CallFunctionVarArgs(inductor_prims.seed).match(node)
IsSeedNode(n) == n.op = "call_function" /\ n.target = SeedTarget

\* The graphs the pass is given: seed nodes on two devices and nodes that
\* use an earlier node, closed by an output node that returns every node
\* nothing else uses.
RECURSIVE SeedGraphShapes(_)
SeedGraphShapes(len) ==
    IF len = 0 THEN {<<>>}
    ELSE { Append(g, o) :
            g \in SeedGraphShapes(len - 1),
            o \in [t : {"seedA", "seedB"}, ref : {0}]
                    \cup [t : {"use"}, ref : 1..(len - 1)] }

SeedGraphNode(shape, i) ==
    IF shape[i].t = "use"
        THEN Node("call_function", RandomTarget, <<NodeArg(shape[i].ref)>>, NoKwargs,
                  [val |-> TensorVal("float32", <<1>>, "A"), stack_trace |-> i])
        ELSE LET dev == IF shape[i].t = "seedA" THEN "A" ELSE "B"
             IN  Node("call_function", SeedTarget, <<DeviceArg(dev)>>, NoKwargs,
                      [val |-> TensorVal("int64", <<>>, dev), stack_trace |-> i])

SeedGraphNodes(shape) ==
    LET len == Len(shape)
        body == [i \in 1..len |-> SeedGraphNode(shape, i)]
        unused == SelectSeq([i \in 1..len |-> i], LAMBDA i : Users(body, i) = {})
        out == Node("output", OutputTarget,
                    <<SeqArg("tuple", [j \in DOMAIN unused |-> NodeArg(unused[j])])>>,
                    NoKwargs, NoMeta)
    IN  [i \in 1..(len + 1) |-> IF i <= len THEN body[i] ELSE out]

InitSeed ==
    /\ TableIdle
    /\ PromoIdle
    /\ RandomIdle
    /\ \E len \in 0..MaxSeedGraphLen : \E shape \in SeedGraphShapes(len) :
        /\ nodes = SeedGraphNodes(shape)
        /\ order = [i \in 1..(len + 1) |-> i]
        /\ next_id = len + 2
    /\ orig_order = order
    /\ orig_nodes = nodes
    /\ fs_pc = "scan"
    /\ device_seeds = <<>>
    /\ fs_grp = 0
    /\ fs_idx = 0
    /\ fs_combined = 0
    /\ fs_new_seed = 0

RECURSIVE FirstSeen(_)
\* The keys of the defaultdict in insertion order: each device once, by the
\* position of its first seed node.
FirstSeen(devs) ==
    IF devs = <<>> THEN <<>>
    ELSE LET front == FirstSeen(SubSeq(devs, 1, Len(devs) - 1))
             last == devs[Len(devs)]
         IN  IF \E i \in DOMAIN front : front[i] = last
                 THEN front ELSE Append(front, last)

\* A grouping that forgets the device and puts every seed in one group.
GroupSeeds_one_group(ord, ns) ==
    LET seeds == SelectSeq(ord, LAMBDA id : IsSeedNode(ns[id]))
    IN  IF seeds = <<>> THEN <<>>
        ELSE <<[device |-> ns[seeds[1]].args[1], seeds |-> seeds]>>

\* for node in graph.nodes: if ...match(node): device_seeds[node.args[0]].append(node)
GroupSeeds(ord, ns) ==
    LET seeds == SelectSeq(ord, LAMBDA id : IsSeedNode(ns[id]))
        keys == FirstSeen([i \in DOMAIN seeds |-> ns[seeds[i]].args[1]])
    IN  [g \in DOMAIN keys |->
            [device |-> keys[g],
             seeds |-> SelectSeq(seeds, LAMBDA id : ns[id].args[1] = keys[g])]]

\* The first loop: the scan that fills device_seeds.
FuseScan ==
    /\ fs_pc = "scan"
    /\ device_seeds' = GroupSeeds(order, nodes)
    /\ fs_grp' = 1
    /\ fs_pc' = IF device_seeds' = <<>> THEN "done" ELSE "combine"
    /\ UNCHANGED <<order, nodes, next_id, orig_order, orig_nodes, fs_idx,
                   fs_combined, fs_new_seed, tvars, pvars, rvars>>

\* with graph.inserting_before(seeds[0]): combined = graph.call_function(
\*     inductor_prims.seeds, (len(seeds), device)); combined.meta["val"] = torch.empty(...)
FuseInsertCombined ==
    /\ fs_pc = "combine"
    /\ LET grp == device_seeds[fs_grp]
           combined == Node("call_function", SeedsTarget,
                            <<IntArg(Len(grp.seeds)), grp.device>>, NoKwargs,
                            [val |-> TensorVal("int64", <<Len(grp.seeds)>>,
                                               grp.device.dev)])
       IN  /\ nodes' = (next_id :> combined) @@ nodes
           /\ order' = InsertBefore(order, grp.seeds[1], next_id)
           /\ fs_combined' = next_id
    /\ next_id' = next_id + 1
    /\ fs_idx' = 0
    /\ fs_pc' = "lookup"
    /\ UNCHANGED <<orig_order, orig_nodes, device_seeds, fs_grp, fs_new_seed, tvars, pvars, rvars>>

\* with graph.inserting_before(seed): new_seed = graph.call_function(
\*     inductor_prims.lookup_seed, (combined, idx))
\* First a variant that inserts at the batched node instead of at the seed.
FuseInsertLookup_at_combined ==
    /\ fs_pc = "lookup"
    /\ LET seed == fs_combined
           new_seed == Node("call_function", LookupSeedTarget,
                            <<NodeArg(fs_combined), IntArg(fs_idx)>>, NoKwargs, NoMeta)
       IN  /\ nodes' = (next_id :> new_seed) @@ nodes
           /\ order' = InsertBefore(order, seed, next_id)
    /\ fs_new_seed' = next_id
    /\ next_id' = next_id + 1
    /\ fs_pc' = "replace"
    /\ UNCHANGED <<orig_order, orig_nodes, device_seeds, fs_grp, fs_idx,
                   fs_combined, tvars, pvars, rvars>>

FuseInsertLookup ==
    /\ fs_pc = "lookup"
    /\ LET seed == device_seeds[fs_grp].seeds[fs_idx + 1]
           new_seed == Node("call_function", LookupSeedTarget,
                            <<NodeArg(fs_combined), IntArg(fs_idx)>>, NoKwargs, NoMeta)
       IN  /\ nodes' = (next_id :> new_seed) @@ nodes
           /\ order' = InsertBefore(order, seed, next_id)
    /\ fs_new_seed' = next_id
    /\ next_id' = next_id + 1
    /\ fs_pc' = "replace"
    /\ UNCHANGED <<orig_order, orig_nodes, device_seeds, fs_grp, fs_idx,
                   fs_combined, tvars, pvars, rvars>>

\* seed.replace_all_uses_with(new_seed); new_seed.meta.update(seed.meta)
FuseReplaceUses ==
    /\ fs_pc = "replace"
    /\ LET seed == device_seeds[fs_grp].seeds[fs_idx + 1]
           rewired == replace_all_uses_with(order, nodes, seed, fs_new_seed)
       IN  nodes' = [rewired EXCEPT
                        ![fs_new_seed].meta = MetaUpdate(@, nodes[seed].meta)]
    /\ fs_pc' = "erase"
    /\ UNCHANGED <<order, next_id, orig_order, orig_nodes, device_seeds, fs_grp,
                   fs_idx, fs_combined, fs_new_seed, tvars, pvars, rvars>>

\* graph.erase_node(seed), which raises when the node still has users; then
\* the next seed of the group, the next group, or the end of the pass.
FuseErase ==
    /\ fs_pc = "erase"
    /\ LET grp == device_seeds[fs_grp]
           seed == grp.seeds[fs_idx + 1]
       IN  IF Users(nodes, seed) # {}
               THEN /\ fs_pc' = "raised"
                    /\ UNCHANGED <<order, nodes, fs_idx, fs_grp>>
               ELSE /\ nodes' = [n \in DOMAIN nodes \ {seed} |-> nodes[n]]
                    /\ order' = RemoveNode(order, seed)
                    /\ IF fs_idx + 1 < Len(grp.seeds)
                           THEN /\ fs_idx' = fs_idx + 1
                                /\ fs_pc' = "lookup"
                                /\ UNCHANGED fs_grp
                           ELSE /\ fs_idx' = 0
                                /\ fs_grp' = fs_grp + 1
                                /\ fs_pc' = IF fs_grp < Len(device_seeds)
                                               THEN "combine" ELSE "done"
    /\ UNCHANGED <<next_id, orig_order, orig_nodes, device_seeds, fs_combined,
                   fs_new_seed, tvars, pvars, rvars>>

NextSeed ==
    \/ FuseScan
    \/ FuseInsertCombined
    \/ FuseInsertLookup
    \/ FuseReplaceUses
    \/ FuseErase

-----------------------------------------------------------------------------
(* Specifications.                                                         *)

-----------------------------------------------------------------------------
(* The explicit type promotion pass: the functions of                      *)
(* ExplicitTypePromotionPass.  A function that mutates the graph or the    *)
(* interpreter's env takes and returns the record G of both; G.err names   *)
(* the exception it raised, if any.                                        *)

RECURSIVE SetToSeq(_)
SetToSeq(S) ==
    IF S = {} THEN <<>>
    ELSE LET x == CHOOSE y \in S : TRUE IN <<x>> \o SetToSeq(S \ {x})

Range(seq) == { seq[i] : i \in DOMAIN seq }

\* A map that takes a python int for a 32 bit integer.
SCALAR_TYPE_TENSOR_DTYPE_MAP_int32 ==
    [ty \in {"bool", "int", "float", "complex"} |->
        IF ty = "bool" THEN "bool"
        ELSE IF ty = "int" THEN "int32"
        ELSE IF ty = "float" THEN "float32"
        ELSE "complex32"]

_SCALAR_TYPE_TENSOR_DTYPE_MAP ==
    [ty \in {"bool", "int", "float", "complex"} |->
        IF ty = "bool" THEN "bool"
        ELSE IF ty = "int" THEN "int64"
        ELSE IF ty = "float" THEN "float32"
        ELSE "complex32"]

\* type(fx_arg).__name__ of a python number, "" of anything else.
ScalarType(arg) ==
    IF arg.k = "scalar" THEN arg.ty ELSE IF arg.k = "int" THEN "int" ELSE ""

HasFakeTensorVal(n) == "val" \in DOMAIN n.meta /\ IsTensor(n.meta["val"])

TypePromotionSnapshot(args_dtypes, kwargs_dtypes, out_dtype) ==
    [args_dtypes |-> args_dtypes, kwargs_dtypes |-> kwargs_dtypes,
     out_dtype |-> out_dtype]

\* The flattened candidates of a rule among the fetched args and kwargs.
Candidates(rule, args, kwargs) ==
    LET pos == SelectSeq(rule.promote_args_positions,
                         LAMBDA i : i < Len(args) /\ args[i + 1].k # "none")
        names == SetToSeq({ name \in rule.promote_kwargs_names :
                              name \in DOMAIN kwargs /\ kwargs[name].k # "none" })
    IN  FlattenAll([j \in DOMAIN pos |-> args[pos[j] + 1]])
            \o FlattenAll([j \in DOMAIN names |-> kwargs[names[j]]])

\* TypePromotionRule.preview_type_promotion
SnapshotOf(cand_args, cand_kwargs, dtypes) ==
    TypePromotionSnapshot([i \in cand_args |-> dtypes[1]],
                          [name \in cand_kwargs |-> dtypes[1]],
                          dtypes[2])

\* A preview that takes every position and name of the rule the node has,
\* None or not.
preview_type_promotion_with_none(rule, args, kwargs) ==
    SnapshotOf({ i \in Range(rule.promote_args_positions) : i < Len(args) },
               { name \in rule.promote_kwargs_names : name \in DOMAIN kwargs },
               elementwise_dtypes(Candidates(rule, args, kwargs), rule.promotion_kind))

preview_type_promotion(rule, args, kwargs) ==
    SnapshotOf({ i \in Range(rule.promote_args_positions) :
                   i < Len(args) /\ args[i + 1].k # "none" },
               { name \in rule.promote_kwargs_names :
                   name \in DOMAIN kwargs /\ kwargs[name].k # "none" },
               elementwise_dtypes(Candidates(rule, args, kwargs), rule.promotion_kind))

\* A get_type_promotion_rule that finds a rule for every OpOverload.
get_type_promotion_rule_any(table, n) ==
    IF ~IsOpOverload(n.target) THEN NoRule
    ELSE IF get_rule(table, n.target.packet) # NoRule THEN get_rule(table, n.target.packet)
    ELSE Rule(n.target.packet[1], n.target.packet[2], <<0>>, {}, "DEFAULT")

\* get_type_promotion_rule(diagnostic, node, type_promotion_table)
get_type_promotion_rule(table, n) ==
    IF ~IsOpOverload(n.target) THEN NoRule ELSE get_rule(table, n.target.packet)

GState(ord, ns, e, next) ==
    [order |-> ord, nodes |-> ns, env |-> e, next_id |-> next, err |-> ""]

\* fx_traceback.get_current_meta(): the meta of the node being run.
CurrentMeta(G, node) == G.nodes[node].meta

\* A creation that links the node in and puts its value in env, but leaves
\* meta["val"] out.
Created_unrecorded(G, ord, created, out, current) ==
    IF IsError(out)
        THEN [G EXCEPT !.order = ord, !.nodes = @ @@ (G.next_id :> created),
                       !.next_id = @ + 1, !.err = out.err]
        ELSE [G EXCEPT !.order = ord,
                       !.nodes = @ @@ (G.next_id :> [created EXCEPT !.meta = current]),
                       !.env = (G.next_id :> out) @@ @,
                       !.next_id = @ + 1]

\* The state after graph.call_function created the node `created` at
\* position ord of the list and running it gave out: env and meta["val"]
\* are updated, and the node gets the keys of the current meta it does not
\* have; when running it raised, the bare node stays in the graph.
Created(G, ord, created, out, current) ==
    IF IsError(out)
        THEN [G EXCEPT !.order = ord, !.nodes = @ @@ (G.next_id :> created),
                       !.next_id = @ + 1, !.err = out.err]
        ELSE [G EXCEPT !.order = ord,
                       !.nodes = @ @@ (G.next_id :>
                                    [created EXCEPT !.meta =
                                        [key \in DOMAIN current \cup {"val"} |->
                                            IF key = "val" THEN out ELSE current[key]]]),
                       !.env = (G.next_id :> out) @@ @,
                       !.next_id = @ + 1]

\* _create_node for a call_function node linked in before (or after) ref,
\* while node is the current node.
create_node(G, ref, after, target, args, kwargs, node) ==
    Created(G,
            IF after THEN InsertAfter(G.order, ref, G.next_id)
                     ELSE InsertBefore(G.order, ref, G.next_id),
            Node("call_function", target, args, kwargs, NoMeta),
            InterpRunNode(G.env, Node("call_function", target, args, kwargs, NoMeta)),
            CurrentMeta(G, node))

\* An _explicit_type_promote_arg that casts a node operand whatever its
\* dtype is.
explicit_type_promote_arg_always(G, node, fx_arg, dtype) ==
    IF dtype # "" /\ fx_arg.k = "node"
        THEN [g |-> create_node(G, node, FALSE, ConvertTarget, <<fx_arg>>,
                                [key \in {"dtype"} |-> DtypeArg(dtype)], node),
              arg |-> NodeArg(G.next_id)]
        ELSE [g |-> G, arg |-> fx_arg]

\* An _explicit_type_promote_arg that never casts.
explicit_type_promote_arg_never(G, node, fx_arg, dtype) == [g |-> G, arg |-> fx_arg]

RECURSIVE explicit_type_promote_arg(_, _, _, _)
RECURSIVE PromoteElems(_, _, _, _, _)
RECURSIVE PromoteNextElem(_, _, _, _, _)

\* The tuple or list built from the promoted elements.
Rebuilt(ctr, r) == [g |-> r.g, arg |-> SeqArg(ctr, r.args)]

\* _explicit_type_promote_arg(diagnostic, node, fx_arg, dtype); dtype "" is
\* None.  The result is the graph afterwards and the new argument.
explicit_type_promote_arg(G, node, fx_arg, dtype) ==
    IF dtype = "" THEN [g |-> G, arg |-> fx_arg]
    ELSE IF fx_arg.k = "node"
        THEN IF ~HasFakeTensorVal(G.nodes[fx_arg.id])
                THEN [g |-> [G EXCEPT !.err = "RuntimeError"], arg |-> fx_arg]
             ELSE IF G.nodes[fx_arg.id].meta["val"].dtype # dtype
                THEN [g |-> create_node(G, node, FALSE, ConvertTarget, <<fx_arg>>,
                                        [key \in {"dtype"} |-> DtypeArg(dtype)], node),
                      arg |-> NodeArg(G.next_id)]
             ELSE [g |-> G, arg |-> fx_arg]
    ELSE IF ScalarType(fx_arg) # ""
        THEN IF _SCALAR_TYPE_TENSOR_DTYPE_MAP[ScalarType(fx_arg)] # dtype
                THEN [g |-> create_node(G, node, FALSE,
                                        OpTarget(<<"aten">>, <<"tensor">>, ScalarType(fx_arg)),
                                        <<fx_arg>>,
                                        [key \in {"dtype"} |-> DtypeArg(dtype)], node),
                      arg |-> NodeArg(G.next_id)]
             ELSE [g |-> G, arg |-> fx_arg]
    ELSE IF fx_arg.k = "seq"
        THEN Rebuilt(fx_arg.ctr, PromoteElems(G, node, fx_arg.elems, dtype, <<>>))
    ELSE [g |-> [G EXCEPT !.err = "NotImplementedError"], arg |-> fx_arg]

\* for fx_arg_elem in fx_arg: new_fx_arg.append(...); stops at an exception.
PromoteElems(G, node, elems, dtype, done) ==
    IF elems = <<>> \/ G.err # "" THEN [g |-> G, args |-> done \o elems]
    ELSE PromoteNextElem(explicit_type_promote_arg(G, node, Head(elems), dtype),
                         node, Tail(elems), dtype, done)

PromoteNextElem(r, node, elems, dtype, done) ==
    PromoteElems(r.g, node, elems, dtype, Append(done, r.arg))

\* dict.get(key, None) of a mapping of the snapshot; "" is None.
DtypeFor(dtypes, key) == IF key \in DOMAIN dtypes THEN dtypes[key] ELSE ""

\* The loop over node.args of _insert_explicit_type_promotion, from
\* position i (0-based) on; stops at an exception.
RECURSIVE PromoteArgsFrom(_, _, _, _, _, _)
RECURSIVE PromoteNextArg(_, _, _, _, _, _)
PromoteArgsFrom(G, node, args, i, info, done) ==
    IF i >= Len(args) \/ G.err # "" THEN [g |-> G, args |-> done]
    ELSE PromoteNextArg(explicit_type_promote_arg(G, node, args[i + 1],
                                                  DtypeFor(info.args_dtypes, i)),
                        node, args, i, info, done)

PromoteNextArg(r, node, args, i, info, done) ==
    PromoteArgsFrom(r.g, node, args, i + 1, info, Append(done, r.arg))

\* The loop over node.kwargs.items(), over the names not yet visited.
RECURSIVE PromoteKwargsFrom(_, _, _, _, _, _)
RECURSIVE PromoteNextKwarg(_, _, _, _, _, _)
PromoteKwargsFrom(G, node, kwargs, names, info, done) ==
    IF names = <<>> \/ G.err # "" THEN [g |-> G, kwargs |-> done]
    ELSE PromoteNextKwarg(explicit_type_promote_arg(G, node, kwargs[Head(names)],
                                                    DtypeFor(info.kwargs_dtypes, Head(names))),
                          node, kwargs, names, info, done)

PromoteNextKwarg(r, node, kwargs, names, info, done) ==
    PromoteKwargsFrom(r.g, node, kwargs, Tail(names), info, (Head(names) :> r.arg) @@ done)

\* "Update node": node.args = tuple(new_args); node.kwargs = new_kwargs,
\* reached when neither loop raised.
UpdateNode(node, new_args, rk) ==
    IF rk.g.err # "" THEN rk.g
    ELSE [rk.g EXCEPT !.nodes[node].args = new_args, !.nodes[node].kwargs = rk.kwargs]

PromoteKwargs(node, kwargs, info, ra) ==
    UpdateNode(node, ra.args,
               PromoteKwargsFrom(ra.g, node, kwargs, SetToSeq(DOMAIN kwargs), info, <<>>))

\* An operand rewrite that leaves the node as it is.
promote_operands_skipped(G, node, info) == G

\* _insert_explicit_type_promotion up to "Update node": the casts are
\* inserted as the loops go; the node gets its new args and kwargs only
\* when both loops have finished.
promote_operands(G, node, info) ==
    PromoteKwargs(node, G.nodes[node].kwargs, info,
                  PromoteArgsFrom(G, node, G.nodes[node].args, 0, info, <<>>))

\* A redirection that leaves out output_cast_node.args = (node,).
RedirectUsers_no_reset(g1, node, cast) ==
    IF g1.err # "" THEN g1
    ELSE [g1 EXCEPT !.nodes = replace_all_uses_with(g1.order, g1.nodes, node, cast)]

\* node.replace_all_uses_with(output_cast_node); output_cast_node.args = (node,)
RedirectUsers(g1, node, cast) ==
    IF g1.err # "" THEN g1
    ELSE [g1 EXCEPT !.nodes =
            [replace_all_uses_with(g1.order, g1.nodes, node, cast)
                EXCEPT ![cast].args = <<NodeArg(node)>>]]

\* The output cast of _rerun_node_after_explicit_type_promotion: the cast
\* node is created after node, the users of node are redirected to it, and
\* its own operand is set back to node.  First a variant whose cast node
\* gets no value in env.
insert_output_cast_not_in_env(G, node, expected_out_dtype) ==
    [RedirectUsers(create_node(G, node, TRUE, ConvertTarget, <<NodeArg(node)>>,
                               [key \in {"dtype"} |-> DtypeArg(expected_out_dtype)], node),
                   node, G.next_id)
        EXCEPT !.env = G.env]

insert_output_cast(G, node, expected_out_dtype) ==
    RedirectUsers(create_node(G, node, TRUE, ConvertTarget, <<NodeArg(node)>>,
                              [key \in {"dtype"} |-> DtypeArg(expected_out_dtype)], node),
                  node, G.next_id)

\* Interpreter.__init__: for every node, the nodes whose last user it is.
UserToLastUses(ord, ns) ==
    [u \in Range(ord) |->
        { n \in InputNodes(ns[u]) :
            \A v \in Users(ns, n) : IndexOf(ord, v) <= IndexOf(ord, u) }]

\* _fetch_fake_args: one value per placeholder, None for an unused
\* placeholder without a fake tensor; raised when a used one has none.
PlaceholderIds(ord, ns) == SelectSeq(ord, LAMBDA id : ns[id].op = "placeholder")

\* A _fetch_fake_args that puts None for every placeholder without a fake
\* tensor, used or not.
fetch_fake_args_lenient(ord, ns) ==
    LET ph == PlaceholderIds(ord, ns)
    IN  [raised |-> FALSE,
         fake_args |-> [i \in DOMAIN ph |->
                          IF HasFakeTensorVal(ns[ph[i]])
                              THEN ns[ph[i]].meta["val"] ELSE NoneVal]]

fetch_fake_args(ord, ns) ==
    LET ph == PlaceholderIds(ord, ns)
    IN  [raised |-> \E i \in DOMAIN ph :
                        ~HasFakeTensorVal(ns[ph[i]]) /\ Users(ns, ph[i]) # {},
         fake_args |-> [i \in DOMAIN ph |->
                          IF HasFakeTensorVal(ns[ph[i]])
                              THEN ns[ph[i]].meta["val"] ELSE NoneVal]]

-----------------------------------------------------------------------------
(* The graphs and tables the type promotion pass is given.  A graph has    *)
(* two placeholders, an operator node X over them (or over a placeholder   *)
(* and a number), optionally a node Y that uses X, and the output node.    *)
(* meta["val"] of every node is the value the exporter's fake execution    *)
(* recorded, and every target is the overload its operands resolve to.     *)
(* The second placeholder may have lost its recorded value (meta without   *)
(* "val").                                                                 *)

ScalarTypes == {"bool", "int", "float", "complex"}

Aten(name) == <<<<"aten">>, <<name>>>>

P1 == NodeArg(1)
P2 == NodeArg(2)
X == NodeArg(3)

Form(packet, args, kwargs) == [packet |-> packet, args |-> args, kwargs |-> kwargs]

\* The forms of X; d1 and d2 are the dtypes of the placeholders.
XForms(d1, d2) ==
    { Form(Aten(name), <<P1, P2>>, NoKwargs) :
        name \in {"add", "eq", "pow", "clamp_min", "clamp_max", "l1_loss"} }
    \cup { Form(Aten("clamp"), <<P1, NoneVal, P2>>, NoKwargs),
           Form(Aten("cat"), <<SeqArg("list", <<P1, P2>>)>>, NoKwargs),
           Form(Aten("add"), <<P1, P2>>, [key \in {"alpha"} |-> ScalarVal("int")]) }
    \cup (IF d1 = "bool"
            THEN { Form(Aten("where"), <<P1, P1, P2>>, NoKwargs) } ELSE {})
    \cup (IF d1 = d2
            THEN { Form(Aten(name), <<P1, ScalarVal(ty)>>, NoKwargs) :
                     name \in {"add", "eq", "pow"}, ty \in ScalarTypes }
                 \cup { Form(Aten("pow"), <<ScalarVal(ty), P1>>, NoKwargs) :
                          ty \in ScalarTypes }
                 \cup { Form(Aten("clamp"), <<P1, ScalarVal(ty), NoneVal>>, NoKwargs) :
                          ty \in ScalarTypes }
                 \cup { Form(Aten(name), <<P1>>, NoKwargs) :
                          name \in {"sin", "abs", "where", "var_mean",
                                    "_local_scalar_dense", "contiguous", "view"} }
            ELSE {})

\* The forms of Y, by the value of X; "none" leaves Y out.
YForms(xval) ==
    {"none"}
    \cup (IF IsTensor(xval) THEN {"view", "add"} ELSE {})
    \cup (IF xval.k = "seq" THEN {"getitem"} ELSE {})
    \cup (IF xval.k = "sym" THEN {"add_sym"} ELSE {})

YForm(y) ==
    IF y = "view" THEN Form(Aten("view"), <<X>>, NoKwargs)
    ELSE IF y = "add" THEN Form(Aten("add"), <<X, P1>>, NoKwargs)
    ELSE IF y = "add_sym" THEN Form(Aten("add"), <<P1, X>>, NoKwargs)
    ELSE Form(<<<<"operator">>, <<"getitem">>>>, <<X, IntArg(0)>>, NoKwargs)

\* A call_function node as the exporter records it.
TracedNode(e, form, id) ==
    LET bare == Node("call_function", OpTarget(form.packet[1], form.packet[2], ""),
                     form.args, form.kwargs, NoMeta)
        overload == IF form.packet[1] = <<"operator">> THEN ""
                    ELSE OverloadFor(form.packet, FetchArgs(e, bare))
        n == [bare EXCEPT !.target.overload = overload]
    IN  [n EXCEPT !.meta = [val |-> InterpRunNode(e, n), stack_trace |-> id]]

PromoGraph(d1, d2, recorded, xform, y) ==
    LET ph == [i \in {1, 2} |->
                 Node("placeholder", OpTarget(<<"fx">>, <<"placeholder">>, ""), <<>>,
                      NoKwargs, [val |-> FakeTensor(IF i = 1 THEN d1 ELSE d2)])]
        e1 == [i \in {1, 2} |-> ph[i].meta["val"]]
        xn == TracedNode(e1, xform, 3)
        e2 == (3 :> xn.meta["val"]) @@ e1
        out(last) == Node("output", OutputTarget, <<NodeArg(last)>>, NoKwargs, NoMeta)
        given == [i \in {1, 2} |->
                    IF i = 2 /\ ~recorded THEN [ph[i] EXCEPT !.meta = NoMeta] ELSE ph[i]]
    IN  IF y = "none"
            THEN (3 :> xn) @@ (4 :> out(3)) @@ given
            ELSE (3 :> xn) @@ (4 :> TracedNode(e2, YForm(y), 4)) @@ (5 :> out(4)) @@ given

\* TypePromotionTable(): the table the pass builds when it is given none,
\* every rule of the two rule sets that is valid stored under its key.
DefaultTable ==
    LET rules == { r \in GeneratedRuleSet \cup ExtraRuleSet : is_valid(AllPackets, r) }
    IN  [key \in { RuleKey(r) : r \in rules } |-> CHOOSE r \in rules : RuleKey(r) = key]

\* The operators of the call_function nodes of a graph.
GraphPackets(ns) == { ns[n].target.packet : n \in { m \in DOMAIN ns : ns[m].op = "call_function" } }

\* The tables a caller passes: the default one, or the default one with a
\* rule of the caller for an operator of the graph.
PassTables(ns) ==
    { DefaultTable }
    \cup { add_rule(AllPackets, DefaultTable, rule).table :
             rule \in { r \in CallerRules :
                          <<r.namespace, r.op_name>> \in GraphPackets(ns) } }

InitPromo ==
    /\ FuseIdle
    /\ RandomIdle
    /\ registry = AllPackets
    /\ tbl_pc = "ready"
    /\ todo_gen = {}
    /\ todo_extra = {}
    /\ last_add = NoCall
    /\ n_add = 0
    /\ \E d1 \in Dtypes, d2 \in Dtypes :
        \E xform \in XForms(d1, d2) :
            \E y \in YForms(TracedNode([i \in {1, 2} |-> FakeTensor(IF i = 1 THEN d1 ELSE d2)],
                                       xform, 3).meta["val"]) :
                \E recorded \in (IF d1 = d2 THEN BOOLEAN ELSE {TRUE}) :
                    /\ nodes = PromoGraph(d1, d2, recorded, xform, y)
                    /\ order = [i \in 1..(IF y = "none" THEN 4 ELSE 5) |-> i]
                    /\ next_id = Len(order) + 1
    /\ rule_table \in PassTables(nodes)
    /\ orig_order = order
    /\ orig_nodes = nodes
    /\ pp_pc = "start"
    /\ pp_err = ""
    /\ env = <<>>
    /\ cur = 0
    /\ pp_rule = NoRule
    /\ pp_info = NoSnapshot
    /\ pp_fetched = NotFetched
    /\ pp_node_val = NoneVal
    /\ run_no = 1
    /\ last_uses = UserToLastUses(order, nodes)
    /\ args_iter = <<>>
    /\ trail = <<>>

-----------------------------------------------------------------------------
(* ExplicitTypePromotionPass._run as a state machine: the steps of         *)
(* Interpreter.run over the live node list, and within run_node the steps  *)
(* of _insert_explicit_type_promotion.                                     *)

Stage(id, name) ==
    trail' = [n \in DOMAIN trail \cup {id} |->
                IF n = id THEN (IF id \in DOMAIN trail THEN trail[id] ELSE <<>>) \o name
                ELSE trail[n]]

\* An exception leaves the pass; nothing is rolled back.  First a variant
\* in which the exception is swallowed and the loop goes on.
Raise_swallowed(err) ==
    /\ pp_pc' = "next"
    /\ pp_err' = err

Raise(err) ==
    /\ pp_pc' = "raised"
    /\ pp_err' = err

\* The graph and env of G become the state.
Commit(G) ==
    /\ order' = G.order
    /\ nodes' = G.nodes
    /\ next_id' = G.next_id
    /\ env' = G.env

Here == GState(order, nodes, env, next_id)

\* _run: fake_args = self._fetch_fake_args(); Interpreter.run(self, *fake_args)
\* up to the loop: env is emptied and args_iter made.
Run ==
    /\ pp_pc = "start"
    /\ LET fetched == fetch_fake_args(order, nodes)
       IN  IF fetched.raised
               THEN /\ Raise("RuntimeError")
                    /\ UNCHANGED <<env, args_iter>>
               ELSE /\ pp_pc' = "next"
                    /\ env' = <<>>
                    /\ args_iter' = fetched.fake_args
                    /\ UNCHANGED pp_err
    /\ UNCHANGED <<order, nodes, next_id, orig_order, orig_nodes, cur, pp_rule, pp_info, pp_fetched,
                   pp_node_val, run_no, last_uses, trail, tvars, fvars, rvars>>

\* for node in self.module.graph.nodes: if node in self.env: continue
\* The iterator reads the successor of the node it is at when it advances.
LoopNext ==
    /\ pp_pc = "next"
    /\ LET pos == IF cur = 0 THEN 1 ELSE IndexOf(order, cur) + 1
       IN  IF pos > Len(order)
               THEN /\ pp_pc' = "done"
                    /\ UNCHANGED <<cur, trail>>
               ELSE /\ cur' = order[pos]
                    /\ IF order[pos] \in DOMAIN env
                           THEN UNCHANGED <<pp_pc, trail>>
                           ELSE /\ pp_pc' = "run_node"
                                /\ Stage(order[pos], <<"visit">>)
    /\ UNCHANGED <<gvars, pp_err, env, pp_rule, pp_info, pp_fetched, pp_node_val, run_no, last_uses,
                   args_iter, tvars, fvars, rvars>>

\* A run_node that looks the rule up and then runs the node without
\* promoting it.
RunNode_unpromoted ==
    /\ pp_pc = "run_node"
    /\ pp_rule' = IF nodes[cur].op = "call_function"
                      THEN get_type_promotion_rule(rule_table, nodes[cur]) ELSE NoRule
    /\ pp_pc' = "super"
    /\ IF nodes[cur].op = "call_function"
           THEN Stage(cur, IF pp_rule' # NoRule THEN <<"lookup", "rule">>
                                                ELSE <<"lookup", "no_rule">>)
           ELSE UNCHANGED trail
    /\ UNCHANGED <<gvars, pp_err, env, cur, pp_info, pp_fetched, pp_node_val, run_no, last_uses,
                   args_iter, tvars, fvars, rvars>>

\* run_node: the rule lookup for a call_function node.
RunNode ==
    /\ pp_pc = "run_node"
    /\ LET rule == IF nodes[cur].op = "call_function"
                       THEN get_type_promotion_rule(rule_table, nodes[cur])
                       ELSE NoRule
       IN  /\ pp_rule' = rule
           /\ IF rule # NoRule
                  THEN /\ pp_pc' = "preview"
                       /\ Stage(cur, <<"lookup", "rule">>)
                  ELSE /\ pp_pc' = "super"
                       /\ IF nodes[cur].op = "call_function"
                              THEN Stage(cur, <<"lookup", "no_rule">>)
                              ELSE UNCHANGED trail
    /\ UNCHANGED <<gvars, pp_err, env, cur, pp_info, pp_fetched, pp_node_val, run_no, last_uses,
                   args_iter, tvars, fvars, rvars>>

\* _insert_explicit_type_promotion: args, kwargs = fetch_args_kwargs_from_env;
\* type_promotion_info = rule.preview_type_promotion(args, kwargs)
Preview ==
    /\ pp_pc = "preview"
    /\ LET args == FetchArgs(env, nodes[cur])
           kwargs == FetchKwargs(env, nodes[cur])
           missing == (\E i \in DOMAIN args : IsError(args[i]))
                      \/ (\E key \in DOMAIN kwargs : IsError(kwargs[key]))
       IN  IF missing
               THEN Raise("KeyError") /\ UNCHANGED <<pp_info, pp_fetched, trail>>
           ELSE IF \E v \in Range(Candidates(pp_rule, args, kwargs)) : ~IsTorchArg(v)
               THEN /\ Raise("ValueError")
                    /\ pp_fetched' = [args |-> args, kwargs |-> kwargs]
                    /\ UNCHANGED <<pp_info, trail>>
           ELSE /\ pp_info' = preview_type_promotion(pp_rule, args, kwargs)
                /\ pp_fetched' = [args |-> args, kwargs |-> kwargs]
                /\ pp_pc' = "promote"
                /\ Stage(cur, <<"preview">>)
                /\ UNCHANGED pp_err
    /\ UNCHANGED <<gvars, env, cur, pp_rule, pp_node_val, run_no, last_uses, args_iter,
                   tvars, fvars, rvars>>

\* The state after the loops: the casts are in the graph; the pass goes on
\* to run the node again unless a loop raised.
OperandsPromoted(G) ==
    /\ Commit(G)
    /\ IF G.err # ""
           THEN Raise(G.err) /\ UNCHANGED trail
           ELSE /\ pp_pc' = "rerun"
                /\ Stage(cur, <<"args_updated">>)
                /\ UNCHANGED pp_err

\* _insert_explicit_type_promotion: the two loops and "Update node".
PromoteOperands ==
    /\ pp_pc = "promote"
    /\ OperandsPromoted(promote_operands(Here, cur, pp_info))
    /\ UNCHANGED <<orig_order, orig_nodes, cur, pp_rule, pp_info, pp_fetched, pp_node_val, run_no,
                   last_uses, args_iter, tvars, fvars, rvars>>

\* node.target = ...; new_node_val = self._run_node_and_update_meta_val(node)
Reran(n, missing, traced, out) ==
    IF "val" \notin DOMAIN n.meta
        THEN Raise("AssertionError") /\ UNCHANGED <<nodes, env, pp_node_val, trail>>
    ELSE IF missing
        THEN Raise("KeyError") /\ UNCHANGED <<nodes, env, pp_node_val, trail>>
    ELSE IF traced.raised
        THEN Raise("AssertionError") /\ UNCHANGED <<nodes, env, pp_node_val, trail>>
    ELSE /\ nodes' = [nodes EXCEPT ![cur].target = traced.op,
                                   ![cur].meta = MetaUpdate(@, [val |-> out])]
         /\ env' = (cur :> out) @@ env
         /\ pp_node_val' = n.meta["val"]
         /\ pp_pc' = "compare"
         /\ Stage(cur, <<"rerun">>)
         /\ UNCHANGED pp_err

\* A rerun that keeps the recorded value instead of running the node again.
RerunOn_stale(n, args, kwargs) ==
    Reran(n, FALSE, find_compatible_op_overload(n, args),
          IF "val" \in DOMAIN n.meta THEN n.meta["val"] ELSE NoneVal)

RerunOn(n, args, kwargs) ==
    Reran(n,
          (\E i \in DOMAIN args : IsError(args[i]))
              \/ (\E key \in DOMAIN kwargs : IsError(kwargs[key])),
          find_compatible_op_overload(n, args),
          Apply(find_compatible_op_overload(n, args).op, args, kwargs))

\* _rerun_node_after_explicit_type_promotion up to the type check: node_val
\* is read, the target is resolved again on the fetched operands, the node
\* is run and env and meta["val"] are updated.
Rerun ==
    /\ pp_pc = "rerun"
    /\ RerunOn(nodes[cur], FetchArgs(env, nodes[cur]), FetchKwargs(env, nodes[cur]))
    /\ UNCHANGED <<order, next_id, orig_order, orig_nodes, cur, pp_rule, pp_info, pp_fetched, run_no,
                   last_uses, args_iter, tvars, fvars, rvars>>

\* The output cast is in the graph.
OutputCast(G) ==
    /\ Commit(G)
    /\ UNCHANGED <<orig_order, orig_nodes>>
    /\ IF G.err # ""
           THEN Raise(G.err) /\ UNCHANGED trail
           ELSE /\ pp_pc' = "super"
                /\ Stage(cur, <<"out_cast">>)
                /\ UNCHANGED pp_err

\* A final comparison that holds the freshly computed dtype, instead of the
\* recorded one, against the expected output dtype.
Compare_fresh ==
    /\ pp_pc = "compare"
    /\ IF PyType(env[cur]) # PyType(pp_node_val)
           THEN Raise("AssertionError") /\ UNCHANGED trail
       ELSE IF IsTensor(pp_node_val)
           THEN IF env[cur].dtype # pp_info.out_dtype
                    THEN Raise("AssertionError") /\ UNCHANGED trail
                    ELSE /\ pp_pc' = "super"
                         /\ Stage(cur, <<"out_same">>)
                         /\ UNCHANGED pp_err
       ELSE Raise("NotImplementedError") /\ UNCHANGED trail
    /\ UNCHANGED <<gvars, env, cur, pp_rule, pp_info, pp_fetched, pp_node_val, run_no, last_uses,
                   args_iter, tvars, fvars, rvars>>

\* _rerun_node_after_explicit_type_promotion from the type check on.
Compare ==
    /\ pp_pc = "compare"
    /\ LET new_node_val == env[cur]
           node_val == pp_node_val
           expected_out_dtype == pp_info.out_dtype
       IN  IF PyType(new_node_val) # PyType(node_val)
               THEN Raise("AssertionError") /\ UNCHANGED <<gvars, env, trail>>
           ELSE IF IsTensor(node_val)
               THEN IF node_val.dtype # expected_out_dtype
                        THEN Raise("AssertionError") /\ UNCHANGED <<gvars, env, trail>>
                    ELSE IF new_node_val.dtype # expected_out_dtype
                        THEN OutputCast(insert_output_cast(Here, cur, expected_out_dtype))
                    ELSE /\ pp_pc' = "super"
                         /\ Stage(cur, <<"out_same">>)
                         /\ UNCHANGED <<gvars, env, pp_err>>
           ELSE IF node_val.k \in {"sym", "seq"}
               THEN Raise("NotImplementedError") /\ UNCHANGED <<gvars, env, trail>>
           ELSE Raise("RuntimeError") /\ UNCHANGED <<gvars, env, trail>>
    /\ UNCHANGED <<cur, pp_rule, pp_info, pp_fetched, pp_node_val, run_no, last_uses, args_iter,
                   tvars, fvars, rvars>>

\* Interpreter.run_node(node), by node.op: a placeholder takes the next
\* fake arg, the output node the value of its operand.
InterpreterRunNode(n) ==
    IF n.op = "placeholder"
        THEN (IF args_iter = <<>> THEN ErrorVal("RuntimeError") ELSE Head(args_iter))
    ELSE IF n.op = "output" THEN FetchArg(env, n.args[1])
    ELSE InterpRunNode(env, n)

\* The rest of the loop body of Interpreter.run once run_node returned out:
\* self.env[node] = out, the values whose last user the node is are
\* deleted, and the output node ends the loop.
NodeRan(n, out, to_delete) ==
    IF IsError(out)
        THEN Raise(out.err) /\ UNCHANGED <<env, args_iter, trail>>
    ELSE /\ env' = [m \in (DOMAIN env \cup {cur}) \ to_delete |->
                      IF m = cur THEN out ELSE env[m]]
         /\ args_iter' = IF n.op = "placeholder" THEN Tail(args_iter) ELSE args_iter
         /\ IF ~(to_delete \subseteq DOMAIN env \cup {cur})
                THEN Raise("KeyError") /\ UNCHANGED trail
                ELSE /\ pp_pc' = IF n.op = "output" THEN "done" ELSE "next"
                     /\ Stage(cur, <<"super">>)
                     /\ UNCHANGED pp_err

\* return super().run_node(node), and the rest of the loop body.
SuperRunNode ==
    /\ pp_pc = "super"
    /\ NodeRan(nodes[cur], InterpreterRunNode(nodes[cur]),
               IF cur \in DOMAIN last_uses THEN last_uses[cur] ELSE {})
    /\ UNCHANGED <<gvars, cur, pp_rule, pp_info, pp_fetched, pp_node_val, run_no, last_uses, tvars,
                   fvars, rvars>>

\* ExplicitTypePromotionPass(diagnostic_context, module).run() on the module
\* a finished run returned.
RunAgain ==
    /\ pp_pc = "done"
    /\ run_no < MaxRuns
    /\ run_no' = run_no + 1
    /\ pp_pc' = "start"
    /\ orig_order' = order
    /\ orig_nodes' = nodes
    /\ last_uses' = UserToLastUses(order, nodes)
    /\ env' = <<>>
    /\ cur' = 0
    /\ pp_rule' = NoRule
    /\ pp_info' = NoSnapshot
    /\ pp_fetched' = NotFetched
    /\ pp_node_val' = NoneVal
    /\ args_iter' = <<>>
    /\ trail' = <<>>
    /\ UNCHANGED <<order, nodes, next_id, pp_err, tvars, fvars, rvars>>

NextPromo ==
    \/ Run
    \/ LoopNext
    \/ RunNode
    \/ Preview
    \/ PromoteOperands
    \/ Rerun
    \/ Compare
    \/ SuperRunNode
    \/ RunAgain

-----------------------------------------------------------------------------
(* replace_random_passes(gm): the patterns registered when the module is   *)
(* imported and by lazy_init, patterns.apply, the two replacements and the *)
(* seed fusion that follows.  Several threads of one process call the      *)
(* pass, each with a graph module of its own; the registry `patterns`, the *)
(* gate of lazy_init and the counters are shared by all of them.           *)

\* The threads of the process.
NumThreads == 2

\* The calls of replace_random_passes one thread makes.
MaxCalls == 2

\* The call_function nodes of a graph the pass is given, a dropout taken as one.
MaxRandGraphLen == 2

Threads == 1..NumThreads

BoolArg(b) == [k |-> "bool", v |-> b]
StrArg(s) == [k |-> "str", v |-> s]
\* A Python float that is the ratio num/den, in lowest terms.
RatArg(num, den) == [k |-> "rat", num |-> num, den |-> den]

RandTarget == OpTarget(<<"aten">>, <<"rand">>, "default")
RandnTarget == OpTarget(<<"aten">>, <<"randn">>, "default")
DropoutTarget == OpTarget(<<"aten">>, <<"native_dropout">>, "default")
DropoutBackwardTarget == OpTarget(<<"aten">>, <<"native_dropout_backward">>, "default")
ReluTarget == OpTarget(<<"aten">>, <<"relu">>, "default")
GtTarget == OpTarget(<<"aten">>, <<"gt">>, "Scalar")
ToTarget == OpTarget(<<"prims">>, <<"convert_element_type">>, "default")
MulTarget == OpTarget(<<"aten">>, <<"mul">>, "Tensor")
PlaceholderTarget == OpTarget(<<"fx">>, <<"placeholder">>, "")

\* Device "A" is a device Triton compiles for, device "B" (the default
\* device of the process) is not.
is_triton(device) == device = "A"

DefaultDevice == "B"

\* should_vectorize(device)
should_vectorize(cfg, device) == cfg.vectorize_random /\ is_triton(device)

\* default_kwargs(device)
default_kwargs(cfg, device) == [vectorize |-> BoolArg(should_vectorize(cfg, device))]

\* get_device(device): the device argument, DeviceArg or NoneVal
get_device(device) == IF device.k = "none" THEN DefaultDevice ELSE device.dev

\* The graphs the pass is given: two placeholders (node 1, the input x, and
\* node 2, the incoming gradient, both float32 on device "A"), then rand and randn
\* calls, dropouts as traced for inference (forward only) and for training
\* (forward and backward) and calls no pattern is about, closed by an
\* output node that returns every node nothing else uses.  The rates of the
\* dropouts are strictly between 0 and 1: a dropout of rate 0 or 1 is traced
\* to other operators than the pattern's.
RandKinds == {"rand", "randn", "dropout", "dropout_train", "relu"}

RECURSIVE RandGraphShapes(_)
RandGraphShapes(len) ==
    IF len = 0 THEN {<<>>}
    ELSE { Append(g, o) : g \in RandGraphShapes(len - 1), o \in RandKinds }

RandPlaceholder(i) ==
    Node("placeholder", PlaceholderTarget, <<>>, NoKwargs,
         [val |-> TensorVal("float32", <<2>>, "A"), stack_trace |-> i])

RECURSIVE RandBody(_)
\* The nodes of a shape in graph order, without the placeholders and the output.
RandBody(shape) ==
    IF shape = <<>> THEN <<>>
    ELSE LET front == RandBody(SubSeq(shape, 1, Len(shape) - 1))
             id == Len(front) + 3
             kind == shape[Len(shape)]
             meta == [val |-> TensorVal("float32", <<2>>, "A"), stack_trace |-> id]
         IN  CASE kind = "rand" ->
                    Append(front, Node("call_function", RandTarget,
                                       <<SeqArg("list", <<IntArg(2)>>)>>,
                                       [device |-> NoneVal, dtype |-> NoneVal], meta))
               [] kind = "randn" ->
                    Append(front, Node("call_function", RandnTarget,
                                       <<SeqArg("list", <<IntArg(2)>>)>>,
                                       [device |-> DeviceArg("A"),
                                        dtype |-> DtypeArg("float16")], meta))
               [] kind = "dropout" ->
                    Append(front, Node("call_function", DropoutTarget,
                                       <<NodeArg(1), RatArg(1, 2), BoolArg(TRUE)>>,
                                       NoKwargs, meta))
               [] kind = "dropout_train" ->
                    front \o
                    << Node("call_function", DropoutTarget,
                            <<NodeArg(1), RatArg(1, 4), BoolArg(TRUE)>>, NoKwargs, meta),
                       Node("call_function", DropoutBackwardTarget,
                            <<NodeArg(2), NodeArg(id), RatArg(4, 3)>>, NoKwargs,
                            [meta EXCEPT !.stack_trace = id + 1]) >>
               [] OTHER ->
                    Append(front, Node("call_function", ReluTarget, <<NodeArg(1)>>,
                                       NoKwargs, meta))

RandGraphNodes(shape) ==
    LET body == RandBody(shape)
        len == Len(body) + 2
        front == [i \in 1..len |-> IF i <= 2 THEN RandPlaceholder(i) ELSE body[i - 2]]
        unused == SelectSeq([j \in 1..(len - 2) |-> j + 2], LAMBDA i : Users(front, i) = {})
        out == Node("output", OutputTarget,
                    <<SeqArg("tuple", [j \in DOMAIN unused |-> NodeArg(unused[j])])>>,
                    NoKwargs, NoMeta)
    IN  [i \in 1..(len + 1) |-> IF i <= len THEN front[i] ELSE out]

\* A graph as the replacements see it: the node list, the nodes and the id
\* the next created node gets.
Graph(ord, ns, nid) == [order |-> ord, nodes |-> ns, next_id |-> nid]

\* graph.inserting_before(ref), for the nodes ids in creation order.
InsertSeqBefore(ord, ref, ids) ==
    LET i == IndexOf(ord, ref)
    IN  SubSeq(ord, 1, i - 1) \o ids \o SubSeq(ord, i, Len(ord))

\* The nodes news (a sequence, created in this order) are linked in before ref.
AddNodes(g, ref, news) ==
    LET ids == [j \in DOMAIN news |-> g.next_id + j - 1]
    IN  Graph(InsertSeqBefore(g.order, ref, ids),
              [n \in DOMAIN g.nodes \cup { ids[j] : j \in DOMAIN ids } |->
                  IF n \in DOMAIN g.nodes THEN g.nodes[n] ELSE news[n - g.next_id + 1]],
              g.next_id + Len(news))

\* The uses of old go to new and old is erased.
ReplaceAndErase(g, old, new) ==
    LET rewired == replace_all_uses_with(g.order, g.nodes, old, new)
    IN  Graph(RemoveNode(g.order, old),
              [n \in DOMAIN rewired \ {old} |-> rewired[n]],
              g.next_id)

\* A pattern registered in `patterns`: the target of the node a match is
\* rooted at, the trace the pattern was made with and the replacement.
PatternEntry(target, mode, handler) ==
    [target |-> target, mode |-> mode, handler |-> handler]

\* The two register_graph_pattern decorators of replace_rand, the inner
\* (randn) applied first.
ImportedPatterns ==
    << PatternEntry(RandnTarget, "graph", "replace_rand"),
       PatternEntry(RandTarget, "graph", "replace_rand") >>

\* The forward node of training-traced dropout the backward node n belongs to.
ForwardOf(ns, n) == ns[n].args[2].id

\* The pattern of the entry matches the graph at node n.  A dropout traced
\* for inference is a forward node no backward node uses; one traced for
\* training is a backward node together with its forward node.
EntryMatches(entry, ns, n) ==
    /\ ns[n].op = "call_function"
    /\ ns[n].target = entry.target
    /\ CASE entry.mode = "inference" ->
                \A u \in Users(ns, n) : ns[u].target # DropoutBackwardTarget
         [] entry.mode = "training" ->
                /\ ns[n].args[2].k = "node"
                /\ ns[ForwardOf(ns, n)].target = DropoutTarget
         [] OTHER -> TRUE

\* The entry patterns.apply uses at node n: the first that matches (0: none).
FirstMatch(pats, ns, n) ==
    IF \E i \in DOMAIN pats : EntryMatches(pats[i], ns, n)
        THEN CHOOSE i \in DOMAIN pats :
                /\ EntryMatches(pats[i], ns, n)
                /\ \A j \in 1..(i - 1) : ~EntryMatches(pats[j], ns, n)
        ELSE 0

\* replace_rand(match, size, dtype=, device=): a seed, the random values
\* made from it and, when a dtype is given, their conversion.
replace_rand(cfg, g, n) ==
    LET node == g.nodes[n]
        size == node.args[1]
        dtype == node.kwargs.dtype
        mode == IF node.target = RandTarget THEN "rand" ELSE "randn"
        device == get_device(node.kwargs.device)
        seed == Node("call_function", SeedTarget, <<DeviceArg(device)>>, NoKwargs,
                     [val |-> TensorVal("int64", <<>>, device),
                      stack_trace |-> node.meta.stack_trace])
        result == Node("call_function", RandomTarget,
                       <<size, NodeArg(g.next_id), StrArg(mode)>>,
                       default_kwargs(cfg, device), node.meta)
        to == Node("call_function", ToTarget, <<NodeArg(g.next_id + 1), dtype>>,
                   NoKwargs, node.meta)
        news == IF dtype.k # "none" THEN <<seed, result, to>> ELSE <<seed, result>>
    IN  ReplaceAndErase(AddNodes(g, n, news), n, g.next_id + Len(news) - 1)

RECURSIVE Gcd(_, _)
Gcd(a, b) == IF b = 0 THEN a ELSE Gcd(b, a % b)

\* float(1.0 / (1.0 - dropout_p))
DropoutScale(p) ==
    LET d == Gcd(p.den, p.den - p.num)
    IN  RatArg(p.den \div d, (p.den - p.num) \div d)

\* The body of get_bool_mask, the seed being node seed_id and the created
\* nodes getting the ids from id on:
\* inductor_prims.random(x.size(), seed, "rand", vectorize) > dropout_p
get_bool_mask(x_val, seed_id, vectorize, p, id, meta) ==
    << Node("call_function", RandomTarget,
            <<SeqArg("list", [i \in DOMAIN x_val.shape |-> IntArg(x_val.shape[i])]),
              NodeArg(seed_id), StrArg("rand"), BoolArg(vectorize)>>, NoKwargs, meta),
       Node("call_function", GtTarget, <<NodeArg(id), p>>, NoKwargs, meta) >>

\* get_bool_mask().to(t.dtype) * t * scale, the mask being node mask_id.
MaskedScale(mask_id, t, t_val, scale, id, meta) ==
    << Node("call_function", ToTarget, <<NodeArg(mask_id), DtypeArg(t_val.dtype)>>,
            NoKwargs, meta),
       Node("call_function", MulTarget, <<NodeArg(id), t>>, NoKwargs, meta),
       Node("call_function", MulTarget, <<NodeArg(id + 1), scale>>, NoKwargs, meta) >>

\* assert 0 < dropout_p < 1
DropoutRateOk(p) == 0 < p.num /\ p.num < p.den

\* The trace of _dropout_replacement(x, dropout_p) with the operands of the
\* match: fwd is the matched forward node and bwd the matched backward node
\* (0 for a match of the inference pattern).  Dropout.forward is traced
\* before the forward node, Dropout.backward before the backward node.
\* cached: get_bool_mask is wrapped in functools.lru_cache, so its second
\* call returns the node of the first.
DropoutTrace(g, fwd, bwd, cached, vectorize) ==
    LET f == g.nodes[fwd]
        x == f.args[1]
        x_val == g.nodes[x.id].meta.val
        dropout_p == f.args[2]
        seed_id == g.next_id
        seed == Node("call_function", SeedTarget, <<DeviceArg(x_val.device)>>, NoKwargs,
                     [val |-> TensorVal("int64", <<>>, x_val.device),
                      stack_trace |-> f.meta.stack_trace])
        scale == DropoutScale(dropout_p)
        fwd_mask == get_bool_mask(x_val, seed_id, vectorize, dropout_p, seed_id + 1, f.meta)
        g1 == AddNodes(g, fwd,
                       <<seed>> \o fwd_mask
                       \o MaskedScale(seed_id + 2, x, x_val, scale, seed_id + 3, f.meta))
        bwd_mask == IF cached THEN <<>>
                    ELSE get_bool_mask(x_val, seed_id, vectorize, dropout_p, seed_id + 6,
                                       g.nodes[bwd].meta)
        bwd_mask_id == IF cached THEN seed_id + 2 ELSE seed_id + 7
        grad_output == g.nodes[bwd].args[1]
        g2 == AddNodes(g1, bwd,
                       bwd_mask
                       \o MaskedScale(bwd_mask_id, grad_output,
                                      g.nodes[grad_output.id].meta.val, scale,
                                      seed_id + 6 + Len(bwd_mask), g.nodes[bwd].meta))
    IN  [graph |-> IF bwd = 0
                      THEN ReplaceAndErase(g1, fwd, seed_id + 5)
                      ELSE ReplaceAndErase(ReplaceAndErase(g2, bwd, g2.next_id - 1),
                                           fwd, seed_id + 5),
         log |-> [fwd |-> fwd, bwd |-> bwd, seed |-> seed_id, fwd_mask |-> seed_id + 2,
                  bwd_mask |-> IF bwd = 0 THEN 0 ELSE bwd_mask_id]]

\* The device of the matched input x.
XDevice(g, fwd) == g.nodes[g.nodes[fwd].args[1].id].meta.val.device

\* A replacement that never wraps get_bool_mask in the cache.
dropout_replacement_uncached(cfg, g, fwd, bwd) ==
    DropoutTrace(g, fwd, bwd, FALSE,
                 IF cfg.lowmem_dropout THEN FALSE
                 ELSE should_vectorize(cfg, XDevice(g, fwd)))

\* if config.lowmem_dropout: vectorize = False
\* else: get_bool_mask = functools.lru_cache(None)(get_bool_mask)
\*       vectorize = should_vectorize(x.device)
_dropout_replacement(cfg, g, fwd, bwd) ==
    DropoutTrace(g, fwd, bwd, ~cfg.lowmem_dropout,
                 IF cfg.lowmem_dropout THEN FALSE
                 ELSE should_vectorize(cfg, XDevice(g, fwd)))

\* A gate that only remembers a finished run: a caller that arrives while
\* the body is running runs it as well.
InitOnceGate_no_wait(gate) ==
    IF gate = "done" THEN "skip" ELSE "run"

\* init_once_fakemode: what the gate lets a caller of lazy_init do.  The
\* first caller runs the body, a caller that arrives while it runs waits
\* for its end, every later caller skips it.
InitOnceGate(gate) ==
    CASE gate = "uninit" -> "run"
      [] gate = "running" -> "wait"
      [] OTHER -> "skip"

InitRandom ==
    /\ TableIdle
    /\ GraphIdle
    /\ FuseIdle
    /\ PromoIdle
    /\ rr_config \in [fallback_random : BOOLEAN, lowmem_dropout : BOOLEAN,
                      vectorize_random : BOOLEAN]
    /\ cuda \in BOOLEAN
    /\ patterns = ImportedPatterns
    /\ init_gate = "uninit"
    /\ init_runs = 0
    /\ rr_pc = [t \in Threads |-> "idle"]
    /\ rr_calls = [t \in Threads |-> 0]
    /\ rr_count = [t \in Threads |-> 0]
    /\ rr_ret = [t \in Threads |-> -1]
    /\ rr_owner = 0
    /\ rr_scan = <<>>
    /\ n_fuse = 0
    /\ rr_counter = 0
    /\ rr_log = <<>>

\* The graph module of the call of thread t comes under the eyes of the model.
LoadGraph(t) ==
    /\ rr_owner = 0
    /\ rr_owner' = t
    /\ \E len \in 0..MaxRandGraphLen : \E shape \in RandGraphShapes(len) :
        /\ nodes' = RandGraphNodes(shape)
        /\ order' = [i \in 1..Len(nodes') |-> i]
        /\ next_id' = Len(nodes') + 1
    /\ orig_order' = order'
    /\ orig_nodes' = nodes'
    /\ n_fuse' = 0
    /\ rr_log' = <<>>

\* replace_random_passes(gm), up to the call of lazy_init:
\* if config.fallback_random: return 0
replace_random_passes(t) ==
    /\ rr_pc[t] = "idle"
    /\ rr_calls[t] < MaxCalls
    /\ rr_calls' = [rr_calls EXCEPT ![t] = @ + 1]
    /\ rr_count' = [rr_count EXCEPT ![t] = 0]
    /\ IF rr_config.fallback_random
           THEN /\ LoadGraph(t)
                /\ rr_pc' = [rr_pc EXCEPT ![t] = "returned"]
                /\ rr_ret' = [rr_ret EXCEPT ![t] = 0]
           ELSE /\ rr_pc' = [rr_pc EXCEPT ![t] = "lazy_init"]
                /\ rr_ret' = [rr_ret EXCEPT ![t] = -1]
                /\ UNCHANGED <<gvars, rr_owner, n_fuse, rr_log>>
    /\ UNCHANGED <<rr_config, cuda, patterns, init_gate, init_runs, rr_scan, rr_counter,
                   tvars, fvars, pvars>>

\* lazy_init without the init_once_fakemode decorator: every call runs the body.
lazy_init_ungated(t) ==
    /\ rr_pc[t] = "lazy_init"
    /\ init_runs' = init_runs + 1
    /\ IF cuda
           THEN /\ init_gate' = "running"
                /\ rr_pc' = [rr_pc EXCEPT ![t] = "reg_inference"]
           ELSE /\ init_gate' = "done"
                /\ rr_pc' = [rr_pc EXCEPT ![t] = "apply_begin"]
    /\ UNCHANGED <<rr_config, cuda, patterns, rr_calls, rr_count, rr_ret, rr_owner, rr_scan,
                   n_fuse, rr_counter, rr_log, tvars, gvars, fvars, pvars>>

\* lazy_init(), the function init_once_fakemode made of it: the gate, and
\* behind it the first statement of the body,
\* if not torch.cuda.is_available(): return
lazy_init(t) ==
    /\ rr_pc[t] = "lazy_init"
    /\ InitOnceGate(init_gate) # "wait"
    /\ IF InitOnceGate(init_gate) = "skip"
           THEN /\ rr_pc' = [rr_pc EXCEPT ![t] = "apply_begin"]
                /\ UNCHANGED <<init_gate, init_runs>>
           ELSE /\ init_runs' = init_runs + 1
                /\ IF cuda
                       THEN /\ init_gate' = "running"
                            /\ rr_pc' = [rr_pc EXCEPT ![t] = "reg_inference"]
                       ELSE /\ init_gate' = "done"
                            /\ rr_pc' = [rr_pc EXCEPT ![t] = "apply_begin"]
    /\ UNCHANGED <<rr_config, cuda, patterns, rr_calls, rr_count, rr_ret, rr_owner, rr_scan,
                   n_fuse, rr_counter, rr_log, tvars, gvars, fvars, pvars>>

\* register_replacement(_dropout_pattern, _dropout_replacement, ..., inference_graph,
\*                      patterns, scalar_workaround=workaround, prepend=True)
RegisterInference(t) ==
    /\ rr_pc[t] = "reg_inference"
    /\ patterns' = <<PatternEntry(DropoutTarget, "inference", "_dropout_replacement")>>
                   \o patterns
    /\ rr_pc' = [rr_pc EXCEPT ![t] = "reg_training"]
    /\ UNCHANGED <<rr_config, cuda, init_gate, init_runs, rr_calls, rr_count, rr_ret, rr_owner,
                   rr_scan, n_fuse, rr_counter, rr_log, tvars, gvars, fvars, pvars>>

\* register_replacement(..., training_graph, patterns, ..., prepend=True), and
\* the return of lazy_init.
RegisterTraining(t) ==
    /\ rr_pc[t] = "reg_training"
    /\ patterns' = <<PatternEntry(DropoutBackwardTarget, "training", "_dropout_replacement")>>
                   \o patterns
    /\ init_gate' = "done"
    /\ rr_pc' = [rr_pc EXCEPT ![t] = "apply_begin"]
    /\ UNCHANGED <<rr_config, cuda, init_runs, rr_calls, rr_count, rr_ret, rr_owner,
                   rr_scan, n_fuse, rr_counter, rr_log, tvars, gvars, fvars, pvars>>

Reverse(s) == [i \in DOMAIN s |-> s[Len(s) + 1 - i]]

\* count = patterns.apply(gm): the start of the scan, for node in
\* reversed(graph.nodes).  Nodes created during the scan match no pattern,
\* so the scan is over the nodes the graph had when it started.
ApplyBegin(t) ==
    /\ rr_pc[t] = "apply_begin"
    /\ LoadGraph(t)
    /\ rr_scan' = Reverse(order')
    /\ rr_pc' = [rr_pc EXCEPT ![t] = "apply"]
    /\ fs_pc' = "idle"
    /\ device_seeds' = <<>>
    /\ fs_grp' = 0
    /\ fs_idx' = 0
    /\ fs_combined' = 0
    /\ fs_new_seed' = 0
    /\ UNCHANGED <<rr_config, cuda, patterns, init_gate, init_runs, rr_calls, rr_count, rr_ret,
                   rr_counter, tvars, pvars>>

\* One node of the scan: an erased node is passed over; for the first entry
\* that matches, the replacement is traced with the operands of the match
\* and committed, and the match is counted.
ApplyNode(t) ==
    /\ rr_pc[t] = "apply"
    /\ rr_scan # <<>>
    /\ rr_scan' = Tail(rr_scan)
    /\ LET n == Head(rr_scan)
           g == Graph(order, nodes, next_id)
           i == IF n \in DOMAIN nodes THEN FirstMatch(patterns, nodes, n) ELSE 0
       IN  IF i = 0
               THEN UNCHANGED <<order, nodes, next_id, rr_pc, rr_count, rr_counter, rr_log>>
           ELSE IF patterns[i].handler = "replace_rand"
               THEN /\ order' = replace_rand(rr_config, g, n).order
                    /\ nodes' = replace_rand(rr_config, g, n).nodes
                    /\ next_id' = replace_rand(rr_config, g, n).next_id
                    /\ rr_count' = [rr_count EXCEPT ![t] = @ + 1]
                    /\ UNCHANGED <<rr_pc, rr_counter, rr_log>>
           ELSE LET fwd == IF patterns[i].mode = "training" THEN ForwardOf(nodes, n) ELSE n
                    bwd == IF patterns[i].mode = "training" THEN n ELSE 0
                IN  IF ~DropoutRateOk(nodes[fwd].args[2])
                        THEN /\ rr_pc' = [rr_pc EXCEPT ![t] = "raised"]
                             /\ UNCHANGED <<order, nodes, next_id, rr_count, rr_counter,
                                            rr_log>>
                        ELSE /\ order' = _dropout_replacement(rr_config, g, fwd, bwd).graph.order
                             /\ nodes' = _dropout_replacement(rr_config, g, fwd, bwd).graph.nodes
                             /\ next_id' = _dropout_replacement(rr_config, g, fwd, bwd).graph.next_id
                             /\ rr_log' = Append(rr_log,
                                    _dropout_replacement(rr_config, g, fwd, bwd).log)
                             /\ rr_counter' = rr_counter + 1
                             /\ rr_count' = [rr_count EXCEPT ![t] = @ + 1]
                             /\ UNCHANGED rr_pc
    /\ UNCHANGED <<orig_order, orig_nodes, rr_config, cuda, patterns, init_gate, init_runs,
                   rr_calls, rr_ret, rr_owner, n_fuse, tvars, fvars, pvars>>

\* An end of the scan that calls fuse_seed_creation_pass whatever the count.
ApplyDone_always_fuse(t) ==
    /\ rr_pc[t] = "apply"
    /\ rr_scan = <<>>
    /\ rr_pc' = [rr_pc EXCEPT ![t] = "fuse"]
    /\ fs_pc' = "scan"
    /\ n_fuse' = n_fuse + 1
    /\ UNCHANGED <<gvars, device_seeds, fs_grp, fs_idx, fs_combined, fs_new_seed, rr_config,
                   cuda, patterns, init_gate, init_runs, rr_calls, rr_count, rr_ret, rr_owner,
                   rr_scan, rr_counter, rr_log, tvars, pvars>>

\* The end of the scan:
\* if count: fuse_seed_creation_pass(gm.graph)
\* return count
ApplyDone(t) ==
    /\ rr_pc[t] = "apply"
    /\ rr_scan = <<>>
    /\ IF rr_count[t] # 0
           THEN /\ rr_pc' = [rr_pc EXCEPT ![t] = "fuse"]
                /\ fs_pc' = "scan"
                /\ n_fuse' = n_fuse + 1
                /\ UNCHANGED rr_ret
           ELSE /\ rr_pc' = [rr_pc EXCEPT ![t] = "returned"]
                /\ rr_ret' = [rr_ret EXCEPT ![t] = rr_count[t]]
                /\ UNCHANGED <<fs_pc, n_fuse>>
    /\ UNCHANGED <<gvars, device_seeds, fs_grp, fs_idx, fs_combined, fs_new_seed, rr_config,
                   cuda, patterns, init_gate, init_runs, rr_calls, rr_count, rr_owner, rr_scan,
                   rr_counter, rr_log, tvars, pvars>>

\* fuse_seed_creation_pass has returned: return count
FuseReturn(t) ==
    /\ rr_pc[t] = "fuse"
    /\ fs_pc = "done"
    /\ rr_pc' = [rr_pc EXCEPT ![t] = "returned"]
    /\ rr_ret' = [rr_ret EXCEPT ![t] = rr_count[t]]
    /\ UNCHANGED <<rr_config, cuda, patterns, init_gate, init_runs, rr_calls, rr_count,
                   rr_owner, rr_scan, n_fuse, rr_counter, rr_log, tvars, gvars, fvars, pvars>>

\* The caller goes on with its graph module, or with the AssertionError.
CallerResumes(t) ==
    /\ rr_pc[t] \in {"returned", "raised"}
    /\ rr_owner = t
    /\ rr_pc' = [rr_pc EXCEPT ![t] = "idle"]
    /\ rr_owner' = 0
    /\ rr_scan' = <<>>
    /\ n_fuse' = 0
    /\ rr_log' = <<>>
    /\ order' = <<>>
    /\ nodes' = <<>>
    /\ next_id' = 1
    /\ orig_order' = <<>>
    /\ orig_nodes' = <<>>
    /\ fs_pc' = "idle"
    /\ device_seeds' = <<>>
    /\ fs_grp' = 0
    /\ fs_idx' = 0
    /\ fs_combined' = 0
    /\ fs_new_seed' = 0
    /\ UNCHANGED <<rr_config, cuda, patterns, init_gate, init_runs, rr_calls, rr_count, rr_ret,
                   rr_counter, tvars, pvars>>

NextRandom ==
    \/ \E t \in Threads :
        \/ replace_random_passes(t)
        \/ lazy_init(t)
        \/ RegisterInference(t)
        \/ RegisterTraining(t)
        \/ ApplyBegin(t)
        \/ ApplyNode(t)
        \/ ApplyDone(t)
        \/ FuseReturn(t)
        \/ CallerResumes(t)
    \/ FuseScan
    \/ FuseInsertCombined
    \/ FuseInsertLookup
    \/ FuseReplaceUses
    \/ FuseErase

vars == <<tvars, gvars, fvars, pvars, rvars>>

SpecTable == InitTable /\ [][NextTable]_vars

SpecSeed == InitSeed /\ [][NextSeed]_vars

SpecPromo == InitPromo /\ [][NextPromo]_vars

SpecRandom == InitRandom /\ [][NextRandom]_vars

\* Either rewrite on a graph of its own: fuse_seed_creation_pass or the
\* type promotion pass.
SpecRewrites == (InitSeed \/ InitPromo) /\ [][NextSeed \/ NextPromo]_vars

\* The pass runs in one thread that nothing suspends: at whichever step
\* it is, it takes that step.  Whether the pass is called again is up to
\* its caller.  Each of Preview, PromoteOperands, Rerun, Compare and
\* SuperRunNode is enabled exactly when pp_pc is at its step, so its weak
\* fairness is written with that condition: the pass is infinitely often
\* not at the step, or takes the step infinitely often.
PassFairness ==
    /\ WF_vars(Run)
    /\ WF_vars(LoopNext)
    /\ WF_vars(RunNode)
    /\ ([]<>(pp_pc # "preview") \/ []<><<Preview>>_vars)
    /\ ([]<>(pp_pc # "promote") \/ []<><<PromoteOperands>>_vars)
    /\ ([]<>(pp_pc # "rerun") \/ []<><<Rerun>>_vars)
    /\ ([]<>(pp_pc # "compare") \/ []<><<Compare>>_vars)
    /\ ([]<>(pp_pc # "super") \/ []<><<SuperRunNode>>_vars)

SpecPromoLive == InitPromo /\ [][NextPromo]_vars /\ PassFairness

-----------------------------------------------------------------------------
(* Properties of fuse_seed_creation_pass.                                  *)

\* The seed nodes of the graph the pass was given, in graph order.
OrigSeeds == SelectSeq(orig_order, LAMBDA id : IsSeedNode(orig_nodes[id]))

OrigSeedSet == { OrigSeeds[i] : i \in DOMAIN OrigSeeds }

OrigSeedDevice(s) == orig_nodes[s].args[1]

\* The 0-based position of seed s among the seeds of its device, in
\* first-seen graph order.
PosInDeviceGroup(s) ==
    Cardinality({ j \in DOMAIN OrigSeeds :
                    /\ j < IndexOf(OrigSeeds, s)
                    /\ OrigSeedDevice(OrigSeeds[j]) = OrigSeedDevice(s) })

NodesWithTarget(target) ==
    { n \in DOMAIN nodes : nodes[n].op = "call_function" /\ nodes[n].target = target }

\* The lookup nodes that read index PosInDeviceGroup(s) of a batched node
\* of the device of s.
LookupsFor(s) ==
    { l \in NodesWithTarget(LookupSeedTarget) :
        /\ Len(nodes[l].args) = 2
        /\ nodes[l].args[2] = IntArg(PosInDeviceGroup(s))
        /\ nodes[l].args[1].k = "node"
        /\ nodes[l].args[1].id \in NodesWithTarget(SeedsTarget)
        /\ nodes[nodes[l].args[1].id].args[2] = OrigSeedDevice(s) }

RECURSIVE RewiredArg(_)
\* An argument of the given graph with every reference to a seed node
\* replaced by a reference to the lookup node of that seed.
RewiredArg(arg) ==
    IF arg.k = "node"
        THEN (IF arg.id \in OrigSeedSet
                THEN NodeArg(CHOOSE l \in LookupsFor(arg.id) : TRUE) ELSE arg)
    ELSE IF arg.k = "seq"
        THEN SeqArg(arg.ctr, [i \in DOMAIN arg.elems |-> RewiredArg(arg.elems[i])])
    ELSE arg

\* C1: after fuse_seed_creation_pass the graph holds exactly one batched
\* seed node per distinct device, exactly one lookup node per original seed
\* node and no original seed node; the lookup that replaces the i-th seed
\* (0-based, first-seen graph order) of its device group reads index i of
\* that device's batched node, and every use of an original seed node
\* refers to the corresponding lookup node.
C1_SeedFusion ==
    fs_pc = "done" =>
        /\ { n \in DOMAIN nodes : n \in DOMAIN orig_nodes /\ IsSeedNode(nodes[n]) } = {}
        /\ NodesWithTarget(SeedTarget) = {}
        /\ { order[i] : i \in DOMAIN order } = DOMAIN nodes
        /\ \A d \in Devices :
              Cardinality({ c \in NodesWithTarget(SeedsTarget) :
                              nodes[c].args[2] = DeviceArg(d) })
                = IF \E s \in OrigSeedSet : OrigSeedDevice(s) = DeviceArg(d)
                      THEN 1 ELSE 0
        /\ Cardinality(NodesWithTarget(SeedsTarget))
              = Cardinality({ OrigSeedDevice(s) : s \in OrigSeedSet })
        /\ Cardinality(NodesWithTarget(LookupSeedTarget)) = Len(OrigSeeds)
        /\ \A s \in OrigSeedSet : Cardinality(LookupsFor(s)) = 1
        /\ \A u \in DOMAIN orig_nodes \ OrigSeedSet :
              /\ u \in DOMAIN nodes
              /\ nodes[u].args =
                    [i \in DOMAIN orig_nodes[u].args |-> RewiredArg(orig_nodes[u].args[i])]

\* The pass has run on a graph with 3 seed nodes on device A and 2 on
\* device B, one of them used by a node besides the output node: 2 batched
\* nodes and 5 lookups.
C1_Witness ==
    /\ fs_pc = "done"
    /\ Cardinality({ s \in OrigSeedSet : OrigSeedDevice(s) = DeviceArg("A") }) = 3
    /\ Cardinality({ s \in OrigSeedSet : OrigSeedDevice(s) = DeviceArg("B") }) = 2
    /\ \E u \in DOMAIN orig_nodes :
          /\ orig_nodes[u].target = RandomTarget
          /\ InputNodes(orig_nodes[u]) \cap OrigSeedSet # {}
    /\ Cardinality(NodesWithTarget(SeedsTarget)) = 2
    /\ Cardinality(NodesWithTarget(LookupSeedTarget)) = 5

-----------------------------------------------------------------------------
(* Placement of the nodes fuse_seed_creation_pass inserts.                 *)

\* The seed nodes of the given graph on one device, in graph order.
OrigSeedsOn(device) == SelectSeq(OrigSeeds, LAMBDA s : OrigSeedDevice(s) = device)

\* The node right before node id in the present graph order; 0 at the front.
NodeBefore(id) == IF IndexOf(order, id) = 1 THEN 0 ELSE order[IndexOf(order, id) - 1]

\* Batched node c asks for as many seeds as the given graph has seed nodes
\* on its device, and its recorded value is a 1-D int64 tensor of that
\* length on that device.
BatchedForGroup(c) ==
    /\ Len(nodes[c].args) = 2
    /\ nodes[c].args[2].k = "device"
    /\ Len(OrigSeedsOn(nodes[c].args[2])) >= 1
    /\ nodes[c].args[1] = IntArg(Len(OrigSeedsOn(nodes[c].args[2])))
    /\ "val" \in DOMAIN nodes[c].meta
    /\ nodes[c].meta["val"] = TensorVal("int64", <<Len(OrigSeedsOn(nodes[c].args[2]))>>,
                                        nodes[c].args[2].dev)

\* The seed node the pass is replacing while it is within a group.
SeedInHand == OrigSeedsOn(nodes[fs_combined].args[2])[fs_idx + 1]

\* The given graph order with every seed node replaced by its lookup node,
\* the batched node of a device put right before the lookup of the first
\* seed node of the device.
RECURSIVE FusedOrder(_)
FusedOrder(ord) ==
    IF ord = <<>> THEN <<>>
    ELSE LET s == Head(ord)
         IN  IF s \notin OrigSeedSet THEN <<s>> \o FusedOrder(Tail(ord))
             ELSE LET l == CHOOSE x \in LookupsFor(s) : TRUE
                  IN  (IF PosInDeviceGroup(s) = 0 THEN <<nodes[l].args[1].id>> ELSE <<>>)
                          \o <<l>> \o FusedOrder(Tail(ord))

\* C25: every batched node asks for as many seeds as its device group
\* has and records a 1-D int64 tensor of that length on the device; when
\* it has just been inserted it is right before the first seed node of the
\* group; a lookup node just inserted is right before the seed node it
\* replaces, and once the uses are rewired its metadata are those of that
\* seed node; after the pass the order is the given one with each seed node
\* replaced by its lookup, the batched node right before the first lookup
\* of its group, and every lookup has the metadata of its seed node.
C25_SeedFusionPlacement ==
    /\ \A c \in NodesWithTarget(SeedsTarget) : BatchedForGroup(c)
    /\ (fs_pc = "lookup" /\ fs_idx = 0) => NodeBefore(SeedInHand) = fs_combined
    /\ fs_pc \in {"replace", "erase"} =>
          /\ NodeBefore(SeedInHand) = fs_new_seed
          /\ nodes[fs_new_seed].args = <<NodeArg(fs_combined), IntArg(fs_idx)>>
    /\ fs_pc = "erase" => nodes[fs_new_seed].meta = orig_nodes[SeedInHand].meta
    /\ fs_pc = "done" =>
          /\ order = FusedOrder(orig_order)
          /\ \A s \in OrigSeedSet : \A l \in LookupsFor(s) :
                nodes[l].meta = orig_nodes[s].meta

\* The pass has run on a graph in which a node lies between the first and
\* the second seed node of a device and another device has a seed node.
C25_Witness ==
    /\ fs_pc = "done"
    /\ Cardinality(NodesWithTarget(SeedsTarget)) = 2
    /\ \E i, j, k \in DOMAIN orig_order :
          /\ i < j
          /\ j < k
          /\ orig_order[i] \in OrigSeedSet
          /\ orig_order[k] \in OrigSeedSet
          /\ OrigSeedDevice(orig_order[i]) = OrigSeedDevice(orig_order[k])
          /\ PosInDeviceGroup(orig_order[i]) = 0
          /\ orig_order[j] \notin OrigSeedSet

-----------------------------------------------------------------------------
(* Properties of the rule table.                                           *)

\* C6: after construction and after any sequence of add_rule calls,
\* successful or failing, every rule stored in the table satisfies
\* is_valid(): its operator resolves to an overload group.
C6_StoredRulesValid ==
    \A k \in DOMAIN rule_table :
        /\ is_valid(registry, rule_table[k])
        /\ GetAttrType(registry, rule_table[k].namespace, rule_table[k].op_name)
               = "OpOverloadPacket"

\* A constructed, non-empty table on which a caller's add_rule has just failed.
C6_Witness ==
    /\ tbl_pc = "ready"
    /\ n_add > 0
    /\ last_add.raised
    /\ DOMAIN rule_table # {}

\* The rule a table holds for the pair (namespace, operator-name).
RuleOfPair(table, ns, name) == get_rule(table, <<ns, name>>)

NamePairs ==
    { <<r.namespace, r.op_name>> :
        r \in GeneratedRuleSet \cup ExtraRuleSet \cup CallerRules }

\* C7: add_rule(rule) fails with an invalid-rule error and leaves the table
\* unchanged when the rule's operator does not resolve to an overload group;
\* otherwise the table afterwards maps (namespace, operator-name) to this
\* rule, replacing any rule stored under that key, and every other key is
\* unchanged.
C7_AddRuleContract ==
    last_add # NoCall =>
        LET rule == last_add.rule
            resolves == GetAttrType(registry, rule.namespace, rule.op_name)
                            = "OpOverloadPacket"
        IN  IF ~resolves
                THEN last_add.raised /\ rule_table = last_add.before
                ELSE /\ ~last_add.raised
                     /\ RuleOfPair(rule_table, rule.namespace, rule.op_name) = rule
                     /\ \A p \in NamePairs :
                            p # <<rule.namespace, rule.op_name>> =>
                                RuleOfPair(rule_table, p[1], p[2])
                                    = RuleOfPair(last_add.before, p[1], p[2])
                     /\ DOMAIN rule_table = DOMAIN last_add.before \cup {RuleKey(rule)}

\* A caller's add_rule has replaced a different rule stored under the same key.
C7_Witness ==
    /\ last_add # NoCall
    /\ ~last_add.raised
    /\ RuleKey(last_add.rule) \in DOMAIN last_add.before
    /\ last_add.before[RuleKey(last_add.rule)] # last_add.rule
    /\ rule_table[RuleKey(last_add.rule)] = last_add.rule


-----------------------------------------------------------------------------
(* Properties of the explicit type promotion pass.  pp_rule, pp_info and   *)
(* pp_fetched describe the node cur from the step that sets them until the *)
(* loop moves on.                                                          *)

\* The pass is past the operand rewrite of a rule-covered node cur.
Rewritten == pp_pc \in {"rerun", "compare", "super"} /\ pp_rule # NoRule

\* The operands the rule of cur names, as they were fetched before the
\* rewrite.
CurCandidates == Candidates(pp_rule, pp_fetched.args, pp_fetched.kwargs)

\* The computation dtype and the result dtype the rule predicts for cur.
CurPredicted == elementwise_dtypes(CurCandidates, pp_rule.promotion_kind)

\* The nodes created while n was the current node: they are not in the
\* graph the run started from and carry the stack trace of n.
InsertedFor(n) ==
    { c \in DOMAIN nodes \ DOMAIN orig_nodes :
        /\ "stack_trace" \in DOMAIN nodes[n].meta
        /\ "stack_trace" \in DOMAIN nodes[c].meta
        /\ nodes[c].meta["stack_trace"] = nodes[n].meta["stack_trace"] }

IsCast(n) == nodes[n].op = "call_function" /\ nodes[n].target = ConvertTarget

\* The output cast of n: a created cast node whose operand is n.
OutputCasts(n) == { c \in InsertedFor(n) : IsCast(c) /\ nodes[c].args = <<NodeArg(n)>> }

\* The dtype of an operand: of a tensor its dtype, of a number the dtype
\* _SCALAR_TYPE_TENSOR_DTYPE_MAP gives its type.
OperandDtype(v) ==
    IF IsTensor(v) THEN v.dtype
    ELSE IF ScalarType(v) # "" THEN _SCALAR_TYPE_TENSOR_DTYPE_MAP[ScalarType(v)]
    ELSE ""

Homogeneous(vals, d) == vals # <<>> /\ \A i \in DOMAIN vals : OperandDtype(vals[i]) = d

\* C2: a second application of the pass to the graph a successful first
\* application produced changes nothing: at every step of it the node list
\* and every node (operands, operator, metadata) are those it started
\* from, and it does not fail.
C2_SecondRunChangesNothing ==
    run_no >= 2 =>
        /\ order = orig_order
        /\ nodes = orig_nodes
        /\ pp_pc # "raised"

\* A second application has finished on a graph in which the first one
\* inserted a cast.
C2_Witness ==
    /\ run_no = 2
    /\ pp_pc = "done"
    /\ \E n \in DOMAIN nodes : IsCast(n)

\* C3 as stated: a DEFAULT rule on operands of one dtype inserts no cast
\* node, for every dtype.
C3_NoCastWhenHomogeneous ==
    (Rewritten /\ pp_rule.promotion_kind = "DEFAULT")
        => \A d \in Dtypes : Homogeneous(CurCandidates, d) => InsertedFor(cur) = {}

\* C3, with the dtypes it holds for: a DEFAULT rule on operands of one
\* dtype d inserts no cast node when d is its own computation dtype; when
\* it is not (float16, complex32) every tensor operand is cast to the
\* computation dtype and the result is cast back to d.
C3_NoCastWhenHomogeneousFullPrecision ==
    (Rewritten /\ pp_rule.promotion_kind = "DEFAULT")
        => \A d \in Dtypes :
            Homogeneous(CurCandidates, d) =>
                IF get_computation_dtype(d) = d
                    THEN InsertedFor(cur) = {}
                    ELSE /\ InsertedFor(cur) # {}
                         /\ \A c \in InsertedFor(cur) \ OutputCasts(cur) :
                                /\ c \in InputNodes(nodes[cur])
                                /\ nodes[c].meta["val"].dtype = get_computation_dtype(d)
                         /\ pp_pc = "super" =>
                                \E c \in OutputCasts(cur) : nodes[c].meta["val"].dtype = d

\* A DEFAULT node on two float32 operands has been through the rewrite and
\* the final comparison.
C3_Witness ==
    /\ Rewritten
    /\ pp_pc = "super"
    /\ pp_rule.promotion_kind = "DEFAULT"
    /\ Len(CurCandidates) = 2
    /\ Homogeneous(CurCandidates, "float32")
    /\ InsertedFor(cur) = {}

\* The dtype the node computes on operands of the computation dtype: the
\* comparison operators give bool, the operators from complex to real the
\* real dtype, the others the computation dtype.
FreshDtypeOf(kind, computation) ==
    IF kind = "ALWAYS_BOOL" THEN "bool"
    ELSE IF kind = "COMPLEX_TO_FLOAT" THEN corresponding_real_dtype(computation)
    ELSE computation

CurPromotedOperands ==
    LET pos == SelectSeq(pp_rule.promote_args_positions,
                         LAMBDA i : i < Len(nodes[cur].args)
                                    /\ nodes[cur].args[i + 1].k # "none")
    IN  FlattenAll([j \in DOMAIN pos |-> FetchArg(env, nodes[cur].args[pos[j] + 1])])

\* C5: a node with an ALWAYS_BOOL rule computes bool whatever the dtypes
\* of its operands are, its consumers read the node itself (no output cast
\* stands between), and every operand the rule names has been brought to
\* the computation dtype of the rule.
C5_AlwaysBoolResult ==
    (pp_pc = "super" /\ pp_rule # NoRule /\ pp_rule.promotion_kind = "ALWAYS_BOOL")
        => /\ env[cur].dtype = "bool"
           /\ nodes[cur].meta["val"].dtype = "bool"
           /\ OutputCasts(cur) = {}
           /\ \A u \in Users(orig_nodes, cur) : cur \in InputNodes(nodes[u])
           /\ \A i \in DOMAIN CurPromotedOperands :
                OperandDtype(CurPromotedOperands[i]) = CurPredicted[1]

\* A comparison of a float32 tensor with an int32 tensor has been promoted:
\* its second operand is a created cast.
C5_Witness ==
    /\ pp_pc = "super"
    /\ pp_rule # NoRule
    /\ pp_rule.promotion_kind = "ALWAYS_BOOL"
    /\ Len(CurCandidates) = 2
    /\ CurCandidates[1] = FakeTensor("float32")
    /\ CurCandidates[2] = FakeTensor("int32")
    /\ nodes[cur].args[2].k = "node"
    /\ nodes[cur].args[2].id \in InsertedFor(cur)
    /\ env[cur].dtype = "bool"

\* run_node finds no rule for n: n is no call_function node, its target is
\* no OpOverload, or the table has no rule for its operator.
NoRuleFor(ns, n) ==
    \/ ns[n].op # "call_function"
    \/ ~IsOpOverload(ns[n].target)
    \/ get_rule(rule_table, ns[n].target.packet) = NoRule

RECURSIVE Redirected(_)
\* An argument with every reference to a node that got an output cast
\* replaced by a reference to that cast.
Redirected(arg) ==
    IF arg.k = "node"
        THEN (IF OutputCasts(arg.id) # {}
                THEN NodeArg(CHOOSE c \in OutputCasts(arg.id) : TRUE) ELSE arg)
    ELSE IF arg.k = "seq"
        THEN SeqArg(arg.ctr, [i \in DOMAIN arg.elems |-> Redirected(arg.elems[i])])
    ELSE arg

\* A node without a rule keeps its operator, its kwargs and its metadata,
\* no node is created for it, and its operands are those it had, but for
\* the references that the output cast of a promoted operand took over.
UntouchedNodes ==
    \A n \in DOMAIN orig_nodes :
        NoRuleFor(orig_nodes, n) =>
            /\ nodes[n].op = orig_nodes[n].op
            /\ nodes[n].target = orig_nodes[n].target
            /\ nodes[n].kwargs = orig_nodes[n].kwargs
            /\ nodes[n].meta = orig_nodes[n].meta
            /\ InsertedFor(n) = {}
            /\ nodes[n].args = [i \in DOMAIN orig_nodes[n].args |->
                                   Redirected(orig_nodes[n].args[i])]

\* The steps run_node takes on a node without a rule change nothing of the
\* graph and do not raise.
NoRuleStep ==
    (pp_pc \in {"run_node", "super"} /\ NoRuleFor(nodes, cur))
        => /\ order' = order
           /\ nodes' = nodes
           /\ next_id' = next_id
           /\ pp_pc' # "raised"

UnsupportedResult(n) ==
    /\ n \in DOMAIN orig_nodes
    /\ "val" \in DOMAIN orig_nodes[n].meta
    /\ orig_nodes[n].meta["val"].k \in {"sym", "seq"}

\* C9 as stated: a rule-covered node with such a result fails with
\* NotImplementedError before anything is done for it: no node inserted,
\* operands and operator as they were.
C9_FailsBeforePromotion ==
    (pp_rule # NoRule /\ UnsupportedResult(cur) /\ pp_pc \in {"super", "raised"})
        => /\ pp_pc = "raised" => pp_err = "NotImplementedError"
           /\ pp_pc # "super"
           /\ InsertedFor(cur) = {}
           /\ nodes[cur].args = orig_nodes[cur].args
           /\ nodes[cur].target = orig_nodes[cur].target

\* C9, as the code does it: a rule-covered node with such a result fails
\* with NotImplementedError at the final comparison, after its promotion:
\* a cast to the computation dtype has been inserted for every operand the
\* rule names whose dtype differs from it, the node refers to the casts,
\* its operator is the overload resolved on the new operands and its
\* recorded value is the one of the new run; there is no output cast.
C9_FailsAfterPromotion ==
    (pp_rule # NoRule /\ UnsupportedResult(cur) /\ pp_pc \in {"compare", "super", "raised"})
        => /\ pp_pc = "raised" => pp_err = "NotImplementedError"
           /\ pp_pc # "super"
           /\ OutputCasts(cur) = {}
           /\ InsertedFor(cur) \subseteq InputNodes(nodes[cur])
           /\ \A c \in InsertedFor(cur) : nodes[c].meta["val"].dtype = CurPredicted[1]
           /\ \A i \in DOMAIN CurPromotedOperands :
                OperandDtype(CurPromotedOperands[i]) = CurPredicted[1]
           /\ nodes[cur].target = find_compatible_op_overload(nodes[cur],
                                                              FetchArgs(env, nodes[cur])).op
           /\ nodes[cur].meta["val"] = env[cur]

\* The pass has failed with NotImplementedError on a node for which it
\* had inserted an argument cast.
C9_Witness ==
    /\ pp_pc = "raised"
    /\ pp_err = "NotImplementedError"
    /\ pp_rule # NoRule
    /\ UnsupportedResult(cur)
    /\ InsertedFor(cur) # {}
    /\ nodes[cur].args # orig_nodes[cur].args

\* C10: the step that runs the node again on its rewritten operands sets
\* the operator of the node to the one overload the dispatch of the
\* overload packet on these operands records; when the dispatch records no
\* overload or more than one, the step fails with AssertionError and the
\* pass ends, the operator left as it was.
ResolveStep ==
    pp_pc = "rerun" =>
        LET traced_ops == TracedOps(nodes[cur].target.packet, FetchArgs(env, nodes[cur]))
        IN  IF Len(traced_ops) = 1
                THEN /\ pp_pc' = "compare"
                     /\ nodes'[cur].target = traced_ops[1]
                     /\ nodes'[cur].args = nodes[cur].args
                ELSE /\ pp_pc' = "raised"
                     /\ pp_err' = "AssertionError"
                     /\ nodes' = nodes

C10_SingleOverloadOrAbort == [][ResolveStep]_vars

\* A node whose number operand became a tensor has got the overload for
\* tensors.
C10_Witness ==
    /\ pp_pc = "compare"
    /\ nodes[cur].target # orig_nodes[cur].target
    /\ nodes[cur].target.packet = orig_nodes[cur].target.packet
    /\ nodes[cur].target = TracedOps(nodes[cur].target.packet, FetchArgs(env, nodes[cur]))[1]

\* The placeholders of the graph the run started from, in graph order.
OrigPlaceholders == PlaceholderIds(orig_order, orig_nodes)

\* A placeholder that has users but no recorded fake tensor.
UsedWithoutVal ==
    \E i \in DOMAIN OrigPlaceholders :
        /\ ~HasFakeTensorVal(orig_nodes[OrigPlaceholders[i]])
        /\ Users(orig_nodes, OrigPlaceholders[i]) # {}

\* C11: once _run has fetched the fake args, either a used placeholder has
\* no fake tensor and the pass has failed with RuntimeError, no node
\* processed and the graph as it was given; or the interpreter holds one
\* value per placeholder, in placeholder order: the recorded fake tensor,
\* or None for an (unused) placeholder without one.
C11_FakeArgsPerPlaceholder ==
    pp_pc # "start" =>
        IF UsedWithoutVal
            THEN /\ pp_pc = "raised"
                 /\ pp_err = "RuntimeError"
                 /\ cur = 0
                 /\ trail = <<>>
                 /\ order = orig_order
                 /\ nodes = orig_nodes
            ELSE (pp_pc = "next" /\ cur = 0) =>
                    /\ Len(args_iter) = Len(OrigPlaceholders)
                    /\ \A i \in DOMAIN OrigPlaceholders :
                        LET n == orig_nodes[OrigPlaceholders[i]]
                        IN  IF HasFakeTensorVal(n)
                                THEN args_iter[i] = n.meta["val"]
                                ELSE args_iter[i] = NoneVal /\ Users(orig_nodes, OrigPlaceholders[i]) = {}

\* The fake args have been fetched for a graph whose second placeholder is
\* unused and has no fake tensor: None stands for it.
C11_Witness ==
    /\ pp_pc = "next"
    /\ cur = 0
    /\ Len(args_iter) = 2
    /\ IsTensor(args_iter[1])
    /\ args_iter[2] = NoneVal
    /\ ~HasFakeTensorVal(nodes[2])

\* The stages of run_node on one node, in the order the code takes them:
\* visit (the loop reaches the node), lookup and rule / no_rule
\* (get_type_promotion_rule), preview (the snapshot), args_updated (the
\* operand rewrite), rerun (the re-interpretation), out_same / out_cast
\* (the final comparison), super (the node is run).
NodeTrails ==
    { <<"visit", "super">>,
      <<"visit", "lookup", "no_rule", "super">>,
      <<"visit", "lookup", "rule", "preview", "args_updated", "rerun", "out_same", "super">>,
      <<"visit", "lookup", "rule", "preview", "args_updated", "rerun", "out_cast", "super">> }

IsPrefix(s, full) == Len(s) <= Len(full) /\ s = SubSeq(full, 1, Len(s))

\* C16: the stages a node has been through are always a prefix of one of
\* the declared orders, the order with a rule being taken exactly by the
\* call_function nodes the table has a rule for; only nodes of the given
\* graph are ever visited; and when the pass ends without an exception
\* every node of the given graph has completed its order, so a
\* call_function node has ended in exactly one of no_rule, out_same and
\* out_cast.
C16_NodeStateMachine ==
    /\ DOMAIN trail \subseteq DOMAIN orig_nodes
    /\ \A n \in DOMAIN trail :
        /\ \E full \in NodeTrails : IsPrefix(trail[n], full)
        /\ Len(trail[n]) >= 3 =>
              /\ orig_nodes[n].op = "call_function"
              /\ (trail[n][3] = "no_rule") <=> NoRuleFor(orig_nodes, n)
        /\ (Len(trail[n]) = 2 /\ trail[n][2] = "super") => orig_nodes[n].op # "call_function"
    /\ pp_pc = "done" =>
        /\ DOMAIN trail = DOMAIN orig_nodes
        /\ \A n \in DOMAIN orig_nodes : trail[n] \in NodeTrails

\* A pass has ended in which one node went through the order with a rule
\* and ended with an output cast, and another through the order without a
\* rule.
C16_Witness ==
    /\ pp_pc = "done"
    /\ \E n \in DOMAIN trail : trail[n] = <<"visit", "lookup", "no_rule", "super">>
    /\ \E n \in DOMAIN trail :
        trail[n] = <<"visit", "lookup", "rule", "preview", "args_updated", "rerun",
                     "out_cast", "super">>

\* C17 as stated: when the final comparison of a tensor-valued node has
\* not ended the pass, the freshly computed dtype is the dtype the rule
\* predicted (its computation dtype or its result dtype).
C17_FreshDtypeAsPredicted ==
    (Rewritten /\ pp_pc = "super" /\ IsTensor(env[cur]))
        => env[cur].dtype \in {CurPredicted[1], CurPredicted[2]}

\* The final comparison of a tensor-valued node: the pass goes on exactly
\* when the dtype recorded before the rewrite is the result dtype the rule
\* predicted, and ends with AssertionError, the graph as it was, otherwise;
\* the freshly computed dtype does not decide it.
FinalComparisonStep ==
    (pp_pc = "compare" /\ IsTensor(pp_node_val) /\ IsTensor(env[cur]))
        => IF pp_node_val.dtype = pp_info.out_dtype
               THEN pp_pc' = "super" /\ pp_err' = ""
               ELSE /\ pp_pc' = "raised"
                    /\ pp_err' = "AssertionError"
                    /\ nodes' = nodes
                    /\ order' = order

\* The value the comparison reads as recorded is the one the node had
\* when the pass was given the graph.
RecordedIsOriginal ==
    pp_pc = "compare" => pp_node_val = orig_nodes[cur].meta["val"]

\* C17, as the code does it: for a tensor-valued result, the dtype
\* recorded for the node before its rewrite must equal the result dtype
\* the rule predicted, any disagreement ending the pass with
\* AssertionError; the dtype freshly computed by re-interpreting the
\* rewritten node may differ from the predicted one without ending the
\* pass.
C17_RecordedDtypeAsPredicted == []RecordedIsOriginal /\ [][FinalComparisonStep]_vars

\* The pass has ended at the final comparison of a node whose recorded
\* dtype is not the one its rule predicts.
C17_Witness ==
    /\ pp_pc = "raised"
    /\ pp_err = "AssertionError"
    /\ cur \in DOMAIN trail
    /\ trail[cur][Len(trail[cur])] = "rerun"
    /\ IsTensor(pp_node_val)
    /\ IsTensor(env[cur])
    /\ pp_node_val.dtype # pp_info.out_dtype

\* The final comparison of the rule-covered tensor node cur is over.
Compared == Rewritten /\ pp_pc = "super" /\ IsTensor(env[cur])

\* C18: after the final comparison of a node, an output cast exists
\* exactly when the recomputed dtype differs from the result dtype of the
\* rule; then there is exactly one, it converts to the result dtype, it
\* stands right after the node in the node list, its only operand is the
\* node, it is the only user of the node, and every former user of the
\* node uses the cast and no longer the node.
C18_OutputCastAfterNode ==
    Compared =>
        /\ (OutputCasts(cur) # {}) <=> (env[cur].dtype # pp_info.out_dtype)
        /\ Cardinality(OutputCasts(cur)) <= 1
        /\ \A c \in OutputCasts(cur) :
            /\ nodes[c].kwargs = [key \in {"dtype"} |-> DtypeArg(pp_info.out_dtype)]
            /\ nodes[c].meta["val"].dtype = pp_info.out_dtype
            /\ env[c] = nodes[c].meta["val"]
            /\ IndexOf(order, c) = IndexOf(order, cur) + 1
            /\ InputNodes(nodes[c]) = {cur}
            /\ Users(nodes, cur) = {c}
            /\ \A u \in Users(orig_nodes, cur) :
                /\ c \in InputNodes(nodes[u])
                /\ cur \notin InputNodes(nodes[u])
        /\ OutputCasts(cur) = {} => Users(nodes, cur) = Users(orig_nodes, cur)

\* A node with two users (a later add and, through it, the output) has
\* got an output cast.
C18_Witness ==
    /\ Compared
    /\ OutputCasts(cur) # {}
    /\ env[cur].dtype = "float32"
    /\ pp_info.out_dtype = "float16"
    /\ \E u \in Users(orig_nodes, cur) : orig_nodes[u].op = "call_function"

RECURSIVE SlotRewritten(_, _, _)
\* The operand slot new is the rewrite of the slot old for the target
\* dtype: a node operand of another dtype has become a conversion node to
\* the target, created by this step, with the old operand as its operand;
\* a node operand of the target dtype, and any operand without a target
\* dtype, is as it was; a list or tuple is rewritten element by element
\* and keeps its kind and its length.
SlotRewritten(old, new, dtype) ==
    IF dtype = "" THEN new = old
    ELSE IF old.k = "node"
        THEN IF nodes[old.id].meta["val"].dtype # dtype
                THEN /\ new.k = "node"
                     /\ new.id \notin DOMAIN nodes
                     /\ new.id \in DOMAIN nodes'
                     /\ nodes'[new.id].op = "call_function"
                     /\ nodes'[new.id].target = ConvertTarget
                     /\ nodes'[new.id].args = <<old>>
                     /\ nodes'[new.id].kwargs = [key \in {"dtype"} |-> DtypeArg(dtype)]
                     /\ nodes'[new.id].meta["val"].dtype = dtype
                     /\ IndexOf(order', old.id) < IndexOf(order', new.id)
                     /\ IndexOf(order', new.id) < IndexOf(order', cur)
                     /\ \A i \in IndexOf(order', new.id)..(IndexOf(order', cur) - 1) :
                            order'[i] \notin DOMAIN nodes
                ELSE new = old
    ELSE IF old.k = "seq"
        THEN /\ new.k = "seq"
             /\ new.ctr = old.ctr
             /\ Len(new.elems) = Len(old.elems)
             /\ \A j \in DOMAIN old.elems : SlotRewritten(old.elems[j], new.elems[j], dtype)
    ELSE TRUE

RECURSIVE CastsNeeded(_, _)
\* How many operands of the slot differ from the target dtype.
CastsNeeded(old, dtype) ==
    IF dtype = "" THEN 0
    ELSE IF old.k = "node"
        THEN (IF nodes[old.id].meta["val"].dtype # dtype THEN 1 ELSE 0)
    ELSE IF ScalarType(old) # ""
        THEN (IF _SCALAR_TYPE_TENSOR_DTYPE_MAP[ScalarType(old)] # dtype THEN 1 ELSE 0)
    ELSE IF old.k = "seq" /\ old.elems # <<>>
        THEN CastsNeeded(SeqArg(old.ctr, Tail(old.elems)), dtype)
                + CastsNeeded(Head(old.elems), dtype)
    ELSE 0

RECURSIVE SumOver(_, _)
SumOver(f, S) ==
    IF S = {} THEN 0 ELSE LET x == CHOOSE y \in S : TRUE IN f[x] + SumOver(f, S \ {x})

\* The operand rewrite of cur, when it does not raise.
OperandRewriteStep ==
    (pp_pc = "promote" /\ pp_pc' = "rerun") =>
        /\ DOMAIN nodes'[cur].args = DOMAIN nodes[cur].args
        /\ DOMAIN nodes'[cur].kwargs = DOMAIN nodes[cur].kwargs
        /\ \A i \in DOMAIN nodes[cur].args :
              SlotRewritten(nodes[cur].args[i], nodes'[cur].args[i],
                            DtypeFor(pp_info.args_dtypes, i - 1))
        /\ \A name \in DOMAIN nodes[cur].kwargs :
              SlotRewritten(nodes[cur].kwargs[name], nodes'[cur].kwargs[name],
                            DtypeFor(pp_info.kwargs_dtypes, name))
        /\ Cardinality(DOMAIN nodes' \ DOMAIN nodes)
              = SumOver([i \in DOMAIN nodes[cur].args |->
                            CastsNeeded(nodes[cur].args[i],
                                        DtypeFor(pp_info.args_dtypes, i - 1))],
                        DOMAIN nodes[cur].args)
                + SumOver([name \in DOMAIN nodes[cur].kwargs |->
                            CastsNeeded(nodes[cur].kwargs[name],
                                        DtypeFor(pp_info.kwargs_dtypes, name))],
                          DOMAIN nodes[cur].kwargs)

\* C19: the operand rewrite gives every node operand that has a target
\* dtype and another dtype one conversion node to the target, placed
\* before the current node behind nothing but other nodes of this rewrite,
\* and the slot refers to it; a node operand that has the target dtype
\* gets no node and its slot stays; a list or tuple operand is rewritten
\* element by element and keeps its kind and length; no other node is
\* created.
C19_NodeOperandRewrite == [][OperandRewriteStep]_vars

\* The operands of a cat over a list of a float32 and an int32 tensor have
\* been rewritten: the list holds the first tensor and a cast of the
\* second.
C19_Witness ==
    /\ pp_pc = "rerun"
    /\ Len(nodes[cur].args) = 1
    /\ nodes[cur].args[1].k = "seq"
    /\ nodes[cur].args[1].ctr = "list"
    /\ nodes[cur].args[1].elems[1] = NodeArg(1)
    /\ nodes[cur].args[1].elems[2].k = "node"
    /\ nodes[cur].args[1].elems[2].id \in InsertedFor(cur)
    /\ Cardinality(InsertedFor(cur)) = 1

\* The dtype a python number stands for: bool for a bool, int64 for an
\* int, float32 for a float, complex32 for a complex.
NaturalDtype(ty) ==
    IF ty = "bool" THEN "bool"
    ELSE IF ty = "int" THEN "int64"
    ELSE IF ty = "float" THEN "float32"
    ELSE "complex32"

RECURSIVE ScalarSlotRewritten(_, _, _)
\* The operand slot new is the rewrite of the slot old as far as numbers
\* go: a number whose natural dtype is not the target has become an
\* aten.tensor node of the target dtype, created by this step before the
\* current node, with the number as its operand; a number of the target
\* dtype, and a number without a target dtype, is the literal it was.
ScalarSlotRewritten(old, new, dtype) ==
    IF ScalarType(old) # ""
        THEN IF dtype # "" /\ NaturalDtype(ScalarType(old)) # dtype
                THEN /\ new.k = "node"
                     /\ new.id \notin DOMAIN nodes
                     /\ new.id \in DOMAIN nodes'
                     /\ nodes'[new.id].op = "call_function"
                     /\ nodes'[new.id].target
                            = OpTarget(<<"aten">>, <<"tensor">>, ScalarType(old))
                     /\ nodes'[new.id].args = <<old>>
                     /\ nodes'[new.id].kwargs = [key \in {"dtype"} |-> DtypeArg(dtype)]
                     /\ nodes'[new.id].meta["val"] = FakeTensor(dtype)
                     /\ IndexOf(order', new.id) < IndexOf(order', cur)
                     /\ \A i \in IndexOf(order', new.id)..(IndexOf(order', cur) - 1) :
                            order'[i] \notin DOMAIN nodes
                ELSE new = old
    ELSE IF old.k = "seq"
        THEN /\ new.k = "seq"
             /\ Len(new.elems) = Len(old.elems)
             /\ \A j \in DOMAIN old.elems :
                    ScalarSlotRewritten(old.elems[j], new.elems[j], dtype)
    ELSE TRUE

\* The rewrite of the number operands of cur, when it does not raise.
ScalarRewriteStep ==
    (pp_pc = "promote" /\ pp_pc' = "rerun") =>
        /\ \A i \in DOMAIN nodes[cur].args :
              ScalarSlotRewritten(nodes[cur].args[i], nodes'[cur].args[i],
                                  DtypeFor(pp_info.args_dtypes, i - 1))
        /\ \A name \in DOMAIN nodes[cur].kwargs :
              ScalarSlotRewritten(nodes[cur].kwargs[name], nodes'[cur].kwargs[name],
                                  DtypeFor(pp_info.kwargs_dtypes, name))
        /\ \A c \in DOMAIN nodes' \ DOMAIN nodes :
              OpName(nodes'[c].target) = "tensor" =>
                  \E i \in DOMAIN nodes'[cur].args : nodes'[cur].args[i] = NodeArg(c)

\* C20: the operand rewrite turns a number operand that has a target
\* dtype into an aten.tensor node of the target dtype, inserted before the
\* current node, exactly when the natural dtype of the number (bool,
\* int64, float32, complex32 for a bool, int, float, complex) differs from
\* the target; otherwise the number stays the literal it was.
C20_ScalarOperandRewrite == [][ScalarRewriteStep]_vars

\* An int operand of an add with a float32 tensor has become a tensor
\* node, and in another position a tensor operand stayed.
C20_Witness ==
    /\ pp_pc = "rerun"
    /\ Len(nodes[cur].args) = 2
    /\ nodes[cur].args[1] = NodeArg(1)
    /\ nodes[cur].args[2].k = "node"
    /\ nodes[cur].args[2].id \in InsertedFor(cur)
    /\ nodes[nodes[cur].args[2].id].target = OpTarget(<<"aten">>, <<"tensor">>, "int")
    /\ nodes[nodes[cur].args[2].id].args = <<ScalarVal("int")>>
    /\ nodes[nodes[cur].args[2].id].meta["val"] = FakeTensor("float32")

-----------------------------------------------------------------------------
(* Properties of replace_random_passes.                                    *)

\* The call of thread t has returned and its graph module is in view.
RandomReturned(t) == rr_owner = t /\ rr_pc[t] = "returned"

\* The nodes of the graph the pass was given that call target.
OrigCalls(target) ==
    { n \in DOMAIN orig_nodes :
        orig_nodes[n].op = "call_function" /\ orig_nodes[n].target = target }

\* The substitutions the registered patterns have to make in the graph the
\* pass was given: one for each rand, randn and, once the dropout patterns
\* are registered, each dropout.
ExpectedCount ==
    Cardinality(OrigCalls(RandTarget)) + Cardinality(OrigCalls(RandnTarget))
    + (IF cuda THEN Cardinality(OrigCalls(DropoutTarget)) ELSE 0)

RandomTargets == {RandTarget, RandnTarget} \cup
                 (IF cuda THEN {DropoutTarget, DropoutBackwardTarget} ELSE {})

\* C12: when a call of replace_random_passes has returned, it has returned 0
\* and the graph is the one it was given, with no seed fusion run, if
\* fallback_random is set or no pattern matches; otherwise it has returned
\* the positive number of substitutions made, none of the matched nodes is
\* left, the seed fusion pass has run exactly once and has run after the
\* substitutions, so that no seed node they created is left unfused.
C12_ReturnValueAndFusion ==
    \A t \in Threads :
        RandomReturned(t) =>
            IF rr_config.fallback_random \/ ExpectedCount = 0
                THEN /\ rr_ret[t] = 0
                     /\ nodes = orig_nodes
                     /\ order = orig_order
                     /\ n_fuse = 0
                ELSE /\ rr_ret[t] = ExpectedCount
                     /\ rr_ret[t] > 0
                     /\ n_fuse = 1
                     /\ fs_pc = "done"
                     /\ \A n \in DOMAIN nodes :
                            /\ nodes[n].target \notin RandomTargets
                            /\ ~IsSeedNode(nodes[n])
                     /\ Cardinality({ n \in DOMAIN nodes : nodes[n].target = LookupSeedTarget })
                            = rr_ret[t]

\* A call has returned 2 after two substitutions and one seed fusion.
C12_Witness ==
    \E t \in Threads :
        /\ RandomReturned(t)
        /\ rr_ret[t] = 2
        /\ n_fuse = 1
        /\ \E n \in DOMAIN nodes : nodes[n].target = SeedsTarget

\* The dropout registrations `patterns` holds for a trace mode.
DropoutRegistrations(mode) ==
    Cardinality({ i \in DOMAIN patterns :
                    patterns[i].handler = "_dropout_replacement" /\ patterns[i].mode = mode })

TraceModes == {"inference", "training"}

\* lazy_init has returned to at least one caller.
LazyInitDone == init_gate = "done"

\* C13 as stated: after any number N >= 1 of calls of lazy_init the registry
\* holds exactly one dropout registration per trace mode.
C13_ExactlyOnePerMode ==
    LazyInitDone => \A mode \in TraceModes : DropoutRegistrations(mode) = 1

RegistrationsAsAfterFirstCall ==
    LazyInitDone => \A mode \in TraceModes :
                        DropoutRegistrations(mode) = (IF cuda THEN 1 ELSE 0)

\* A step taken after lazy_init has returned once leaves the registry as it is.
RegistryStableStep == LazyInitDone => patterns' = patterns

\* C13: after any number N >= 1 of calls of lazy_init the registry holds
\* exactly one dropout registration per trace mode if a CUDA device is
\* available and none if not, and it is the registry the first call left:
\* no later call changes it.
C13_OnePerModeWithDevice == []RegistrationsAsAfterFirstCall /\ [][RegistryStableStep]_vars

\* Three calls have gone through lazy_init on a host with a CUDA device, a
\* thread being past lazy_init in its second call.
C13_Witness ==
    /\ cuda
    /\ LazyInitDone
    /\ \A mode \in TraceModes : DropoutRegistrations(mode) = 1
    /\ \E t \in Threads, u \in Threads :
        /\ t # u
        /\ rr_calls[t] = 2
        /\ rr_pc[t] = "apply_begin"
        /\ rr_calls[u] >= 1
        /\ rr_pc[u] = "idle"

\* Thread t has come out of lazy_init in its current call.
PastLazyInit(t) == rr_pc[t] \in {"apply_begin", "apply", "fuse", "raised"}
                   \/ (rr_pc[t] = "returned" /\ ~rr_config.fallback_random)

\* The threads that are inside the body of lazy_init.
InBody == { t \in Threads : rr_pc[t] \in {"reg_inference", "reg_training"} }

\* C14: however the threads race on lazy_init, its body is entered at most
\* once and by one thread only, no dropout pattern is registered twice, and
\* a thread that has come out of lazy_init finds the initialization done:
\* the body has run exactly once and the registry holds every registration
\* the body makes (one per trace mode with a CUDA device, none without).
C14_InitBodyRunsOnce ==
    /\ init_runs <= 1
    /\ Cardinality(InBody) <= 1
    /\ \A mode \in TraceModes : DropoutRegistrations(mode) <= 1
    /\ \A t \in Threads :
        PastLazyInit(t) =>
            /\ init_runs = 1
            /\ init_gate = "done"
            /\ \A mode \in TraceModes :
                    DropoutRegistrations(mode) = (IF cuda THEN 1 ELSE 0)

\* The race: both threads are in their first call, one is inside the body
\* with the first of the two registrations made, the other is at the gate.
C14_Witness ==
    \E t \in Threads, u \in Threads :
        /\ rr_calls[t] = 1
        /\ rr_calls[u] = 1
        /\ rr_pc[t] = "reg_training"
        /\ rr_pc[u] = "lazy_init"
        /\ DropoutRegistrations("inference") = 1
        /\ DropoutRegistrations("training") = 0

\* The nodes the trace of a replacement left for the original node orig
\* (they carry its stack trace) that call target.
TracedFor(orig, target) ==
    { n \in DOMAIN nodes :
        /\ nodes[n].target = target
        /\ "stack_trace" \in DOMAIN nodes[n].meta
        /\ nodes[n].meta.stack_trace = orig }

\* The boolean mask a direction uses: the operand of its conversion node.
MaskUsed(orig) == { nodes[c].args[1].id : c \in TracedFor(orig, ToTarget) }

\* The random values a mask is made from: the first operand of the comparison.
RandomOf(mask) == nodes[nodes[mask].args[1].id]

\* The replacement e of rr_log has its mask computed once, by the forward
\* direction, and both directions use that one mask.
MaskShared(e) ==
    /\ Cardinality(TracedFor(e.fwd, GtTarget)) = 1
    /\ TracedFor(e.bwd, GtTarget) = {}
    /\ MaskUsed(e.fwd) = TracedFor(e.fwd, GtTarget)
    /\ e.bwd # 0 => MaskUsed(e.bwd) = MaskUsed(e.fwd)

\* Each direction of the replacement e has a mask of its own, made of
\* random values of its own that come from the one seed of the replacement
\* and are not vectorized.
MaskRecomputed(e) ==
    /\ Cardinality(TracedFor(e.fwd, GtTarget)) = 1
    /\ MaskUsed(e.fwd) = TracedFor(e.fwd, GtTarget)
    /\ \A m \in MaskUsed(e.fwd) : RandomOf(m).args[4] = BoolArg(FALSE)
    /\ e.bwd # 0 =>
        /\ Cardinality(TracedFor(e.bwd, GtTarget)) = 1
        /\ MaskUsed(e.bwd) = TracedFor(e.bwd, GtTarget)
        /\ \A m \in MaskUsed(e.fwd), k \in MaskUsed(e.bwd) :
            /\ m # k
            /\ nodes[m].args[1] # nodes[k].args[1]
            /\ RandomOf(m).target = RandomTarget
            /\ RandomOf(k).target = RandomTarget
            /\ RandomOf(m).args[2] = RandomOf(k).args[2]
            /\ RandomOf(k).args[4] = BoolArg(FALSE)

\* C15: for every dropout replacement made (the rate being strictly
\* between 0 and 1), with lowmem_dropout off the boolean mask is computed
\* once and the forward and the backward direction use the same mask node;
\* with lowmem_dropout on each direction computes its own mask from random
\* values of its own, both drawn from the same seed, with vectorize False.
C15_DropoutMask ==
    \A i \in DOMAIN rr_log :
        /\ DropoutRateOk(orig_nodes[rr_log[i].fwd].args[2])
        /\ IF rr_config.lowmem_dropout
               THEN MaskRecomputed(rr_log[i])
               ELSE MaskShared(rr_log[i])

\* A training dropout has been replaced with lowmem_dropout on and
\* vectorize_random set, and the seeds have been fused since.
C15_Witness ==
    /\ rr_config.lowmem_dropout
    /\ rr_config.vectorize_random
    /\ fs_pc = "done"
    /\ \E i \in DOMAIN rr_log :
        /\ rr_log[i].bwd # 0
        /\ MaskRecomputed(rr_log[i])
        /\ MaskUsed(rr_log[i].fwd) # MaskUsed(rr_log[i].bwd)

-----------------------------------------------------------------------------
(* Properties of the snapshot, of the finished pass and of the graph       *)
(* order.                                                                  *)

\* The positions (0-based) the rule of cur names that the node has and
\* whose operand is not None, and the like for the keyword names.
ParticipatingArgs ==
    { i \in Range(pp_rule.promote_args_positions) :
        i < Len(nodes[cur].args) /\ nodes[cur].args[i + 1] # NoneVal }

ParticipatingKwargs ==
    { name \in pp_rule.promote_kwargs_names :
        name \in DOMAIN nodes[cur].kwargs /\ nodes[cur].kwargs[name] # NoneVal }

\* The snapshot of cur, before the operands are rewritten.
SnapshotSlots ==
    pp_pc = "promote" =>
        /\ DOMAIN pp_info.args_dtypes = ParticipatingArgs
        /\ DOMAIN pp_info.kwargs_dtypes = ParticipatingKwargs
        /\ \A i \in DOMAIN pp_info.args_dtypes : pp_info.args_dtypes[i] = CurPredicted[1]
        /\ \A name \in DOMAIN pp_info.kwargs_dtypes :
              pp_info.kwargs_dtypes[name] = CurPredicted[1]

\* The operand rewrite leaves a slot without target dtype as it is.
PassThroughStep ==
    (pp_pc = "promote" /\ pp_pc' = "rerun") =>
        /\ \A i \in DOMAIN nodes[cur].args :
              (i - 1) \notin DOMAIN pp_info.args_dtypes
                  => /\ i \in DOMAIN nodes'[cur].args
                     /\ nodes'[cur].args[i] = nodes[cur].args[i]
        /\ \A name \in DOMAIN nodes[cur].kwargs :
              name \notin DOMAIN pp_info.kwargs_dtypes
                  => /\ name \in DOMAIN nodes'[cur].kwargs
                     /\ nodes'[cur].kwargs[name] = nodes[cur].kwargs[name]

\* C21: the snapshot gives a target dtype to exactly the positions and
\* names the rule names, the node has and whose operand is not None, the
\* same computation dtype to all of them; every other operand slot has no
\* target dtype and is the same after the operand rewrite as before.
C21_SnapshotSlots == []SnapshotSlots /\ [][PassThroughStep]_vars

\* The operands of a clamp(x, None, max) over tensors of two dtypes have
\* been rewritten: positions 0 and 2 had a target dtype and a cast was
\* inserted, position 1 (None) had none and is None still.
C21_Witness ==
    /\ pp_pc = "rerun"
    /\ pp_rule # NoRule
    /\ pp_rule.promote_args_positions = <<0, 1, 2>>
    /\ DOMAIN pp_info.args_dtypes = {0, 2}
    /\ nodes[cur].args[2] = NoneVal
    /\ InsertedFor(cur) # {}

\* The pass has returned the module.
PassSucceeded == pp_pc = "done"

\* The values the nodes of the graph have recorded in meta["val"].
MetaEnv ==
    [m \in { n \in DOMAIN nodes : "val" \in DOMAIN nodes[n].meta } |-> nodes[m].meta["val"]]

\* The call_function nodes of the graph that have a rule in the table.
RuleCovered ==
    { n \in DOMAIN nodes :
        /\ nodes[n].op = "call_function"
        /\ get_type_promotion_rule(rule_table, nodes[n]) # NoRule }

\* The nodes that are operands of n in the slots its rule names.
ParticipatingNodes(n, rule) ==
    UNION { ArgNodes(nodes[n].args[i + 1]) :
              i \in { j \in Range(rule.promote_args_positions) : j < Len(nodes[n].args) } }
    \cup UNION { ArgNodes(nodes[n].kwargs[name]) :
                   name \in rule.promote_kwargs_names \cap DOMAIN nodes[n].kwargs }

\* The computation dtype the rule gives for the operands n has now.
ComputationDtype(n, rule) ==
    elementwise_dtypes(Candidates(rule, FetchArgs(MetaEnv, nodes[n]),
                                  FetchKwargs(MetaEnv, nodes[n])),
                       rule.promotion_kind)[1]

OperandsExplicit(n, rule) ==
    \A m \in ParticipatingNodes(n, rule) :
        /\ HasFakeTensorVal(nodes[m])
        /\ nodes[m].meta["val"].dtype = ComputationDtype(n, rule)

\* C22: when the pass has returned, every tensor operand a rule-covered node
\* has in the slots its rule names has the computation dtype the rule gives
\* for the node, and the value recorded in meta["val"] of every
\* call_function node is the value interpreting the node on the recorded
\* values of its operands gives.
C22_ExplicitAndConsistent ==
    PassSucceeded =>
        /\ \A n \in RuleCovered :
              OperandsExplicit(n, get_type_promotion_rule(rule_table, nodes[n]))
        /\ \A n \in DOMAIN nodes :
              nodes[n].op = "call_function" =>
                  /\ "val" \in DOMAIN nodes[n].meta
                  /\ nodes[n].meta["val"] = InterpRunNode(MetaEnv, nodes[n])

\* The pass has returned a graph in which it cast both operands of a
\* rule-covered node and the node's result.
C22_Witness ==
    /\ PassSucceeded
    /\ run_no = 1
    /\ \E n \in RuleCovered :
        /\ Cardinality(InsertedFor(n)) >= 3
        /\ OutputCasts(n) # {}
        /\ Cardinality(ParticipatingNodes(n, get_type_promotion_rule(rule_table, nodes[n]))) = 2

\* The value recorded for node n is the one interpreting n on the recorded
\* values of its operands gives.
NodeFresh(n) ==
    /\ "val" \in DOMAIN nodes[n].meta
    /\ nodes[n].meta["val"] = InterpRunNode(MetaEnv, nodes[n])

\* The nodes the pass created in this run.
CreatedNodes == DOMAIN nodes \ DOMAIN orig_nodes

\* The operand nodes of cur whose recorded value the operand rewrite reads:
\* those in a slot that has a target dtype.
OperandsRead ==
    UNION { ArgNodes(nodes[cur].args[i + 1]) : i \in DOMAIN pp_info.args_dtypes }
    \cup UNION { ArgNodes(nodes[cur].kwargs[name]) : name \in DOMAIN pp_info.kwargs_dtypes }

\* C23: while the pass has not raised, every node it created has a recorded
\* value, the one that comes of its operands; outside the rerun and the
\* final comparison of a rewritten node, so whenever a node is taken up,
\* the recorded value of every call_function node is the one that comes of
\* its present operands; and the recorded value of an operand the operand
\* rewrite is about to read is the value the interpreter has for it in
\* this run.
C23_NoStaleMetadata ==
    pp_pc \notin {"raised", "start"} =>
        /\ \A c \in CreatedNodes : NodeFresh(c)
        /\ pp_pc \notin {"rerun", "compare"} =>
              \A n \in DOMAIN nodes : nodes[n].op = "call_function" => NodeFresh(n)
        /\ pp_pc = "promote" =>
              \A m \in OperandsRead :
                  /\ m \in DOMAIN env
                  /\ "val" \in DOMAIN nodes[m].meta
                  /\ nodes[m].meta["val"] = env[m]

\* The operand rewrite of a node is about to read the recorded value of an
\* output cast node created earlier in the run, after the node before was
\* rewritten and run again.
C23_Witness ==
    /\ pp_pc = "promote"
    /\ \E m \in OperandsRead :
        /\ m \in CreatedNodes
        /\ IsCast(m)
        /\ \E n \in DOMAIN trail :
            /\ nodes[m].args = <<NodeArg(n)>>
            /\ trail[n] = <<"visit", "lookup", "rule", "preview", "args_updated", "rerun",
                            "out_cast", "super">>

\* The pass has ended with an exception exactly when an error is recorded;
\* a pass that returned its module has none.
RaisedIffError ==
    /\ pp_pc = "raised" <=> pp_err # ""
    /\ pp_err \in {"", "AssertionError", "KeyError", "NotImplementedError", "RuntimeError",
                   "ValueError"}

\* The fatal conditions of the steps of a rule-covered node.
FatalHere ==
    \/ /\ pp_pc = "rerun"
       /\ \/ "val" \notin DOMAIN nodes[cur].meta
          \/ find_compatible_op_overload(nodes[cur], FetchArgs(env, nodes[cur])).raised
    \/ /\ pp_pc = "compare"
       /\ \/ PyType(env[cur]) # PyType(pp_node_val)
          \/ ~IsTensor(pp_node_val)
          \/ pp_node_val.dtype # pp_info.out_dtype

\* A step out of a fatal condition ends the pass with an exception; the
\* step that ends the pass removes no node, changes no operand and no
\* operator of a node and keeps the order of the nodes there were; after
\* it nothing happens any more.
FatalStep ==
    /\ FatalHere => pp_pc' = "raised"
    /\ pp_pc = "raised" => pp_pc' = "raised" /\ UNCHANGED gvars
    /\ (pp_pc # "raised" /\ pp_pc' = "raised") =>
          /\ DOMAIN nodes \subseteq DOMAIN nodes'
          /\ \A n \in DOMAIN nodes :
                /\ nodes'[n].args = nodes[n].args
                /\ nodes'[n].kwargs = nodes[n].kwargs
                /\ nodes'[n].target = nodes[n].target
          /\ SelectSeq(order', LAMBDA n : n \in DOMAIN nodes) = order
          /\ UNCHANGED <<orig_nodes, orig_order>>

\* C24: a fatal condition met at a node ends the pass with an exception and
\* the pass never returns its module after one; the ending step and
\* everything after it leave the nodes inserted and the operands rewritten
\* so far in the graph.
C24_FatalPropagatesNoRollback == []RaisedIffError /\ [][FatalStep]_vars

\* The pass has ended with an exception at a node for which it had created
\* nodes, after it had rewritten the operands of an earlier node; all
\* these are in the graph.
C24_Witness ==
    /\ pp_pc = "raised"
    /\ \E c \in CreatedNodes : c \in Range(order) /\ NodeArg(c) \in Range(nodes[cur].args)
    /\ \E n \in DOMAIN orig_nodes \ {cur} :
          /\ nodes[n].args # orig_nodes[n].args
          /\ \E c \in CreatedNodes : c \in Range(order) /\ NodeArg(c) \in Range(nodes[n].args)

-----------------------------------------------------------------------------
(* Termination and the visits of the pass.                                 *)

\* How often stage name occurs on the trail of node n.
StageCount(n, name) ==
    IF n \in DOMAIN trail
        THEN Cardinality({ i \in DOMAIN trail[n] : trail[n][i] = name })
        ELSE 0

\* The nodes run_node was called for so far in this run.
Visited == DOMAIN trail

\* The visited nodes are nodes of the graph the run started from, a front
\* part of it in its order; each was visited once, its rule was looked up
\* at most once and it was promoted at most once; no created node was
\* visited.
VisitsInOrder ==
    /\ Visited \cap CreatedNodes = {}
    /\ \E k \in 0..Len(orig_order) : Visited = { orig_order[i] : i \in 1..k }
    /\ \A n \in Visited :
          /\ StageCount(n, "visit") = 1
          /\ StageCount(n, "lookup") <= 1
          /\ StageCount(n, "preview") <= 1
          /\ StageCount(n, "args_updated") <= 1
          /\ StageCount(n, "lookup") = 1 => orig_nodes[n].op = "call_function"

\* A run that has returned visited every node of the graph it started
\* from and looked the rule up once for each of its call_function nodes.
AllVisitedOnce ==
    pp_pc = "done" =>
        /\ Visited = Range(orig_order)
        /\ \A n \in Range(orig_order) :
              orig_nodes[n].op = "call_function" => StageCount(n, "lookup") = 1

\* The loop takes up a node that is not yet in env, and only such a node;
\* a created node is always in env when the loop comes to it.
LoopStep ==
    (pp_pc = "next" /\ cur' # cur) =>
        /\ cur' \in CreatedNodes => (cur' \in DOMAIN env /\ pp_pc' = "next")
        /\ cur' \in DOMAIN orig_nodes => (cur' \notin DOMAIN env /\ pp_pc' = "run_node")

PassEnded == pp_pc \in {"done", "raised"}

\* C26: a run of the pass comes to an end, returned or raised; run_node
\* and the rule lookup happen once for each call_function node of the graph
\* the run started from, in the order of that graph; the nodes the pass
\* creates are never taken up: those before the current node are behind the
\* loop, and the output cast after it is in env when the loop reaches it.
C26_TerminatesVisitingOnce ==
    /\ []VisitsInOrder
    /\ []AllVisitedOnce
    /\ [][LoopStep]_vars
    /\ (pp_pc = "start" ~> PassEnded)

\* The loop has come to an output cast it created for an earlier node and
\* goes on without running it.
C26_Witness ==
    /\ pp_pc = "next"
    /\ cur \in CreatedNodes
    /\ IsCast(cur)
    /\ cur \in DOMAIN env
    /\ cur \notin Visited
    /\ \E n \in Visited : nodes[cur].args = <<NodeArg(n)>> /\ StageCount(n, "out_cast") = 1

-----------------------------------------------------------------------------
(* The dtype the users of a node see.                                      *)

\* The nodes of the graph the run started from whose recorded value is a
\* tensor.
OrigTensorNodes ==
    { n \in DOMAIN orig_nodes :
        "val" \in DOMAIN orig_nodes[n].meta /\ IsTensor(orig_nodes[n].meta["val"]) }

\* The node the users of n refer to: its output cast when it has one.
SeenAs(n) == IF OutputCasts(n) = {} THEN n ELSE CHOOSE c \in OutputCasts(n) : TRUE

\* The users n had in the graph the run started from.
OrigUsers(n) == { u \in DOMAIN orig_nodes : n \in InputNodes(orig_nodes[u]) }

\* C27: after a run that returned, for every node of the given graph with
\* a recorded tensor value, the node its users refer to (the node itself,
\* or its output cast when the pass inserted one) has a recorded tensor
\* value of the dtype recorded for the node before the run, which is the
\* dtype interpreting it gives; when there is an output cast no other
\* node refers to the node itself.
C27_ObservedDtypePreserved ==
    pp_pc = "done" =>
        \A n \in OrigTensorNodes :
            /\ n \in DOMAIN nodes
            /\ Cardinality(OutputCasts(n)) <= 1
            /\ "val" \in DOMAIN nodes[SeenAs(n)].meta
            /\ IsTensor(nodes[SeenAs(n)].meta["val"])
            /\ nodes[SeenAs(n)].meta["val"].dtype = orig_nodes[n].meta["val"].dtype
            /\ nodes[SeenAs(n)].op = "call_function" => NodeFresh(SeenAs(n))
            /\ SeenAs(n) # n => Users(nodes, n) = {SeenAs(n)}
            /\ \A u \in OrigUsers(n) :
                  \/ SeenAs(n) \in InputNodes(nodes[u])
                  \/ \E c \in InsertedFor(u) :
                        /\ c \in InputNodes(nodes[u])
                        /\ nodes[c].args[1] = NodeArg(SeenAs(n))

\* A run has returned after it rewrote a node whose users now read an
\* output cast, and the rewritten node itself has another dtype than the
\* one recorded for it before.
C27_Witness ==
    /\ pp_pc = "done"
    /\ run_no = 1
    /\ \E n \in OrigTensorNodes :
          /\ SeenAs(n) # n
          /\ OrigUsers(n) # {}
          /\ nodes[n].meta["val"].dtype # orig_nodes[n].meta["val"].dtype

-----------------------------------------------------------------------------
(* The order of the graph under both rewrites.                             *)

\* The node list holds every node of the graph once, and every node comes
\* after the nodes it uses, all of which are in the graph.
GraphWellOrdered ==
    /\ Range(order) = DOMAIN nodes
    /\ Cardinality(Range(order)) = Len(order)
    /\ \A n \in DOMAIN nodes : \A m \in InputNodes(nodes[n]) :
          /\ m \in DOMAIN nodes
          /\ IndexOf(order, m) < IndexOf(order, n)

\* The nodes the rewrites insert: a lookup comes after the batched node it
\* reads; a cast the type promotion pass created comes after its source,
\* and a user of such a cast comes after it.
InsertedWellPlaced ==
    /\ \A l \in NodesWithTarget(LookupSeedTarget) :
          /\ nodes[l].args[1].k = "node"
          /\ nodes[l].args[1].id \in NodesWithTarget(SeedsTarget)
          /\ IndexOf(order, nodes[l].args[1].id) < IndexOf(order, l)
    /\ pp_pc # "idle" =>
          \A c \in CreatedNodes :
              /\ \A m \in InputNodes(nodes[c]) : IndexOf(order, m) < IndexOf(order, c)
              /\ \A u \in Users(nodes, c) : IndexOf(order, c) < IndexOf(order, u)

====
